---- MODULE Spec2Model ----
(***************************************************************************)
(* A model of TJSON (src/index.ts): the type registry, the character       *)
(* cursor Lex, its token consumers, the object and element parsers and the *)
(* entry points, run on the JavaScript job queue.                          *)
(*                                                                         *)
(* Every async function call is a frame on the stack of the logical thread *)
(* that awaits it.  A frame that returns or throws settles its promise:    *)
(* the awaiting caller is resumed by a later job, appended to the FIFO     *)
(* microtask queue.  A call whose promise is not awaited (the call of      *)
(* lex.skip() in ObjectParser.parse) starts a thread of its own.           *)
(***************************************************************************)
EXTENDS Integers, Sequences, FiniteSets, TLC

VARIABLES
  types,     \* the registry: handlers in lookup order
  lex,       \* the cursor: chars, index, eof, lineNo, charNo
  stream,    \* chunks the reader has not delivered yet
  reads,     \* threads with a pending reader.read(), oldest first
  threads,   \* per logical thread: its stack of frames
  queue,     \* the microtask queue: threads to resume, oldest first
  run,       \* threads executing synchronously right now, innermost last
  outcome,   \* how the call under test settled
  log,       \* what has happened so far (history)
  input      \* the call under test, and how the reference call settled

vars == <<types, lex, stream, reads, threads, queue, run, outcome, log, input>>

(***************************************************************************)
(* Bounds of the model.                                                    *)
(***************************************************************************)
MaxAddType == 2
MaxWhite == 3
MaxNumberLen == 4
MaxBodyAwaits == 1

(***************************************************************************)
(* Characters.                                                             *)
(***************************************************************************)
\* str[i], from 0; the empty string where JavaScript gives undefined
CharAt(str, i) == IF 0 <= i /\ i < Len(str) THEN SubSeq(str, i + 1, i + 1) ELSE ""

isWhiteOrEnd(ch) == ch \in {"", " ", "\n", "\t", "\r"}
isWhite(ch) == ch = " " \/ ch = "\n" \/ ch = "\t" \/ ch = "\r"

isDigit(ch) == ch \in {"0", "1", "2", "3", "4", "5", "6", "7", "8", "9"}


(***************************************************************************)
(* Decoded values.  A number is kept as mantissa * 10^exponent, with no    *)
(* trailing zero in the mantissa: two literals denote the same number      *)
(* exactly when these agree.                                               *)
(***************************************************************************)
Undefined == [t |-> "undefined", b |-> FALSE, m |-> 0, e |-> 0, s |-> "",
              keys |-> <<>>, items |-> <<>>]
BoolValue(b) == [Undefined EXCEPT !.t = "boolean", !.b = b]
NumberValue(m, e) == [Undefined EXCEPT !.t = "number", !.m = m, !.e = e]
StringValue(s) == [Undefined EXCEPT !.t = "string", !.s = s]
DateValue(s) == [Undefined EXCEPT !.t = "date", !.s = s]
ArrayValue(items) == [Undefined EXCEPT !.t = "array", !.items = items]
ObjectValue(keys, items) ==
  [Undefined EXCEPT !.t = "object", !.keys = keys, !.items = items]
CustomValue(name, v) == [Undefined EXCEPT !.t = name, !.items = <<v>>]

HasKey(obj, k) == \E i \in 1..Len(obj.keys) : obj.keys[i] = k

\* obj[k] = v: an existing key keeps its place, a new one goes last.
SetKey(obj, k, v) ==
  IF HasKey(obj, k)
  THEN [obj EXCEPT !.items =
          [i \in 1..Len(obj.items) |-> IF obj.keys[i] = k THEN v ELSE obj.items[i]]]
  ELSE [obj EXCEPT !.keys = Append(@, k), !.items = Append(@, v)]

GetKey(obj, k) ==
  IF HasKey(obj, k)
  THEN obj.items[CHOOSE i \in 1..Len(obj.keys) : obj.keys[i] = k]
  ELSE Undefined

(***************************************************************************)
(* Samples.  kind is what typeof, Array.isArray, instanceof and            *)
(* Object.prototype.toString tell of the sample; keys are its enumerable   *)
(* own string keys in enumeration order and props their sample values (for *)
(* an array: its elements); before and after are the values under the      *)
(* symbol keys beforeParse and afterParse.                                 *)
(***************************************************************************)
NoSample == [kind |-> "undefined", keys |-> <<>>, props |-> <<>>,
             before |-> <<>>, after |-> <<>>]
Prim(kind) == [NoSample EXCEPT !.kind = kind]
ArrayOf(elems) == [NoSample EXCEPT !.kind = "array", !.props = elems]
Obj(keys, props) == [NoSample EXCEPT !.kind = "object", !.keys = keys, !.props = props]

\* Object.prototype, and the keys every plain object inherits from it (not
\* enumerable) that the documents of the calls below use.
ObjectPrototype == [NoSample EXCEPT !.kind = "prototype"]
InheritedKeys == {"toString", "__proto__"}

\* key in template
KeyIn(key, template) ==
  \/ \E i \in 1..Len(template.keys) : template.keys[i] = key
  \/ key \in InheritedKeys

\* template[key]
Prop(template, key) ==
  IF \E i \in 1..Len(template.keys) : template.keys[i] = key
  THEN template.props[CHOOSE i \in 1..Len(template.keys) : template.keys[i] = key]
  ELSE IF key = "toString" THEN Prim("function")
  ELSE IF key = "__proto__"
       THEN (IF template.kind = "prototype" THEN Prim("null") ELSE ObjectPrototype)
  ELSE NoSample

(***************************************************************************)
(* Errors.  lex.error(msg) is a SyntaxError whose message starts with the  *)
(* cursor's position; the other errors carry no position.                  *)
(***************************************************************************)
NoError == [name |-> "", positioned |-> FALSE, line |-> 0, col |-> 0, msg |-> ""]

error(msg) ==
  [name |-> "SyntaxError", positioned |-> TRUE,
   line |-> lex.lineNo, col |-> lex.charNo, msg |-> msg]

TypeError(msg) == [NoError EXCEPT !.name = "TypeError", !.msg = msg]

\* what JSON.parse throws
NativeSyntaxError(msg) == [NoError EXCEPT !.name = "SyntaxError", !.msg = msg]

\* The text of an error's message, as the caller sees it.
MessageText(err) ==
  IF err.positioned
  THEN "(Line:" \o ToString(err.line) \o ", character:" \o ToString(err.col)
       \o "): " \o err.msg
  ELSE err.msg


(***************************************************************************)
(* The registry.  A priority is the pair <<p \div 10^8, p % 10^8>>, so     *)
(* that 2^53 - 1 (the catch-all's) can be written; a handler accepts the   *)
(* sample kinds its isValid returns true for.                              *)
(***************************************************************************)
AllKinds == {"boolean", "number", "date", "string", "array", "object", "USD",
             "prototype", "null", "function", "undefined"}

Handler(hi, lo, name, accepts) ==
  [priority |-> <<hi, lo>>, name |-> name, accepts |-> accepts]

booleanType == Handler(0, 1000000, "boolean", {"boolean"})
numberType == Handler(0, 2000000, "number", {"number"})
dateType == Handler(0, 10000000, "date", {"date"})
stringType == Handler(0, 11000000, "string", {"string"})
arrayType == Handler(0, 12000000, "array", {"array"})
\* typeof(sample) === 'object'
objectType ==
  Handler(0, 13000000, "object", {"object", "array", "date", "USD", "prototype", "null"})
failType == Handler(90071992, 54740991, "fail", AllKinds)

BuiltinTypes ==
  <<booleanType, numberType, dateType, stringType, arrayType, objectType, failType>>

\* a.priority - b.priority < 0
PriorityLess(a, b) ==
  \/ a.priority[1] < b.priority[1]
  \/ a.priority[1] = b.priority[1] /\ a.priority[2] < b.priority[2]

isValid(x, sample) == sample.kind \in x.accepts

\* Where x goes in the sorted sequence seq under a stable sort: after every
\* element that does not compare greater than it.
RECURSIVE InsertSorted(_, _)
InsertSorted(seq, x) ==
  IF seq = <<>> THEN <<x>>
  ELSE IF PriorityLess(x, Head(seq)) THEN <<x>> \o seq
  ELSE <<Head(seq)>> \o InsertSorted(Tail(seq), x)

\* Array.prototype.sort with the comparator (a, b) => a.priority - b.priority:
\* a stable sort.
RECURSIVE SortByPriority(_)
SortByPriority(seq) ==
  IF seq = <<>> THEN <<>>
  ELSE InsertSorted(SortByPriority(SubSeq(seq, 1, Len(seq) - 1)), seq[Len(seq)])

\* A registration that does not sort: the new handler stays last.
PushOnly(registry, type) == Append(registry, type)

\* types.push(type); types.sort(...)
PushAndSort(registry, type) == SortByPriority(Append(registry, type))

\* types.find(x => x.isValid(sample))!
Find(registry, sample) ==
  registry[CHOOSE i \in 1..Len(registry) :
             /\ isValid(registry[i], sample)
             /\ \A j \in 1..(i - 1) : ~isValid(registry[j], sample)]

\* Handlers a caller may register: addType takes any Type, whatever its
\* priority (2^53 is a number) and its isValid.
usdType == Handler(0, 500, "usd", {"USD"})
CustomTypes ==
  { usdType,
    Handler(0, 999999, "flag", {"boolean", "number"}),
    Handler(0, 2000000, "tie", {"number"}),
    Handler(0, 12500000, "late", {"USD", "object"}),
    Handler(90071992, 54740992, "beyond", {"function"}),
    Handler(0, 0, "any", AllKinds) }

(***************************************************************************)
(* JSON.parse(buf) of a number literal.                                    *)
(***************************************************************************)
DigitValue(ch) ==
  CASE ch = "0" -> 0 [] ch = "1" -> 1 [] ch = "2" -> 2 [] ch = "3" -> 3
    [] ch = "4" -> 4 [] ch = "5" -> 5 [] ch = "6" -> 6 [] ch = "7" -> 7
    [] ch = "8" -> 8 [] ch = "9" -> 9

RECURSIVE ToInt(_)
ToInt(digits) ==
  IF digits = "" THEN 0
  ELSE 10 * ToInt(SubSeq(digits, 1, Len(digits) - 1))
       + DigitValue(CharAt(digits, Len(digits) - 1))

\* The first position (from 1) of a character of set in str, Len(str) + 1 if none.
IndexOf(str, set) ==
  IF \E i \in 1..Len(str) : CharAt(str, i - 1) \in set
  THEN CHOOSE i \in 1..Len(str) :
         /\ CharAt(str, i - 1) \in set
         /\ \A j \in 1..(i - 1) : CharAt(str, j - 1) \notin set
  ELSE Len(str) + 1

RECURSIVE Normalize(_, _)
Normalize(m, e) ==
  IF m = 0 THEN NumberValue(0, 0)
  ELSE IF m % 10 = 0 THEN Normalize(m \div 10, e + 1)
  ELSE NumberValue(m, e)

JSONparseNumber(buf) ==
  LET neg == CharAt(buf, 0) = "-"
      body == IF neg THEN SubSeq(buf, 2, Len(buf)) ELSE buf
      ePos == IndexOf(body, {"e", "E"})
      mant == SubSeq(body, 1, ePos - 1)
      expo == SubSeq(body, ePos + 1, Len(body))
      dot == IndexOf(mant, {"."})
      int == SubSeq(mant, 1, dot - 1)
      frac == SubSeq(mant, dot + 1, Len(mant))
      eneg == CharAt(expo, 0) = "-"
      edigits == IF CharAt(expo, 0) \in {"+", "-"}
                 THEN SubSeq(expo, 2, Len(expo)) ELSE expo
      ev == IF eneg THEN 0 - ToInt(edigits) ELSE ToInt(edigits)
      mv == ToInt(int \o frac)
  IN Normalize(IF neg THEN 0 - mv ELSE mv, ev - Len(frac))


(***************************************************************************)
(* Frames, threads and jobs.                                               *)
(***************************************************************************)
\* What an awaited call hands back: a character or string (ch), a value
\* (val), an iterator result (done, val), a read result (done, ch), or a
\* thrown error (ok = FALSE, err).
NoRet == [ok |-> TRUE, done |-> FALSE, ch |-> "", val |-> Undefined, err |-> NoError]
RetCh(c) == [NoRet EXCEPT !.ch = c]
RetVal(v) == [NoRet EXCEPT !.val = v]
RetThrow(e) == [NoRet EXCEPT !.ok = FALSE, !.err = e]

\* One activation of a function: where it waits (pc), what its awaited call
\* handed back (ret), and its parameters and locals.
Frame(fn) ==
  [fn |-> fn, pc |-> "start", ret |-> NoRet, type |-> "", sample |-> NoSample,
   original |-> NoSample, template |-> NoSample, target |-> Undefined,
   s |-> "", ch |-> "", buf |-> "", i |-> 0, gen |-> <<>>]

Front(seq) == SubSeq(seq, 1, Len(seq) - 1)

MainThread == 1

\* The thread that executes: the innermost running one or, when the last job
\* is over, the thread the oldest job of the microtask queue resumes.
cur == IF run = <<>> THEN Head(queue) ELSE run[Len(run)]
active == IF run = <<>> THEN <<Head(queue)>> ELSE run
rest == IF run = <<>> THEN Tail(queue) ELSE queue
stack == threads[cur]
top == stack[Len(stack)]

Ready == run # <<>> \/ queue # <<>>

\* The executing thread is in function fn, at its start or resumed with a
\* fulfilled promise.
Running(fn) == Ready /\ top.fn = fn /\ top.ret.ok

\* The running function (its frame now f) calls g and awaits the promise.
Calls(f, g) ==
  /\ threads' = [threads EXCEPT ![cur] = Append([stack EXCEPT ![Len(stack)] = f], g)]
  /\ queue' = rest
  /\ run' = active
  /\ UNCHANGED outcome

\* The running function settles its promise with r: the caller that awaits
\* it is resumed by a new job; the job that ran the function is over.
Returns(r) ==
  LET n == Len(stack) IN
  /\ threads' = [threads EXCEPT ![cur] =
                   IF n = 1 THEN <<>> ELSE [Front(stack) EXCEPT ![n - 1].ret = r]]
  /\ queue' = IF n = 1 THEN rest ELSE Append(rest, cur)
  /\ run' = Front(active)
  /\ outcome' = IF n = 1 /\ cur = MainThread
                THEN [settled |-> TRUE, ret |-> r] ELSE outcome

Throws(e) == Returns(RetThrow(e))

\* An await resumed with a rejected promise throws; no function of the
\* program catches, so the function's own promise is rejected.
Propagate ==
  /\ Ready
  /\ ~top.ret.ok
  /\ Returns(top.ret)
  /\ UNCHANGED <<types, lex, stream, reads, log, input>>

\* The oldest pending reader.read() settles, with the next chunk or done.
ReadSettles ==
  /\ run = <<>>
  /\ reads # <<>>
  /\ LET t == Head(reads) IN
     /\ threads' = [threads EXCEPT ![t][Len(threads[t])].ret =
                      IF stream = <<>> THEN [NoRet EXCEPT !.done = TRUE]
                      ELSE RetCh(Head(stream))]
     /\ queue' = Append(queue, t)
  /\ reads' = Tail(reads)
  /\ stream' = IF stream = <<>> THEN <<>> ELSE Tail(stream)
  /\ UNCHANGED <<types, lex, run, outcome, log, input>>

(***************************************************************************)
(* class Lex: the cursor.                                                  *)
(***************************************************************************)
NewLex == [chars |-> "", index |-> 0, eof |-> FALSE, lineNo |-> 1, charNo |-> 1]

\* The history keeps, in log.base, the number of characters of the chunks
\* that this.chars has held before.
peek ==
  /\ Running("peek")
  /\ \/ /\ top.pc = "start"
        /\ lex.eof
        /\ Returns(RetCh(""))
        /\ UNCHANGED <<lex, reads, log>>
     \/ /\ top.pc = "start"
        /\ ~lex.eof
        /\ lex.index >= Len(lex.chars)
        /\ threads' = [threads EXCEPT ![cur][Len(stack)].pc = "read"]
        /\ reads' = Append(reads, cur)
        /\ queue' = rest
        /\ run' = Front(active)
        /\ UNCHANGED <<lex, outcome, log>>
     \/ /\ top.pc = "start"
        /\ ~lex.eof
        /\ lex.index < Len(lex.chars)
        /\ Returns(RetCh(CharAt(lex.chars, lex.index)))
        /\ UNCHANGED <<lex, reads, log>>
     \/ /\ top.pc = "read"
        /\ top.ret.done
        /\ lex' = [lex EXCEPT !.chars = "", !.index = 0, !.eof = TRUE]
        /\ log' = [log EXCEPT !.base = @ + Len(lex.chars)]
        /\ Returns(RetCh(""))
        /\ UNCHANGED reads
     \/ /\ top.pc = "read"
        /\ ~top.ret.done
        /\ lex' = [lex EXCEPT !.chars = top.ret.ch, !.index = 0]
        /\ log' = [log EXCEPT !.base = @ + Len(lex.chars)]
        /\ Returns(RetCh(CharAt(top.ret.ch, 0)))
        /\ UNCHANGED reads
  /\ UNCHANGED <<types, stream, input>>

nextChar ==
  /\ Running("nextChar")
  /\ \/ /\ top.pc = "start"
        /\ Calls([top EXCEPT !.pc = "peeked"], Frame("peek"))
        /\ UNCHANGED <<lex, log>>
     \/ /\ top.pc = "peeked"
        /\ top.ret.ch = ""
        /\ Returns(RetCh(""))
        /\ UNCHANGED <<lex, log>>
     \/ /\ top.pc = "peeked"
        /\ top.ret.ch # ""
        /\ lex' = IF top.ret.ch = "\n"
                  THEN [lex EXCEPT !.index = @ + 1, !.lineNo = @ + 1, !.charNo = 1]
                  ELSE [lex EXCEPT !.index = @ + 1, !.charNo = @ + 1]
        /\ Returns(RetCh(top.ret.ch))
        /\ log' = [log EXCEPT !.consumers = @ \cup {cur}]
  /\ UNCHANGED <<types, stream, reads, input>>

mustChar ==
  /\ Running("mustChar")
  /\ \/ /\ top.pc = "start"
        /\ Calls([top EXCEPT !.pc = "got"], Frame("nextChar"))
     \/ /\ top.pc = "got"
        /\ top.ret.ch = ""
        /\ Throws(error("Expected a character but got EOF."))
     \/ /\ top.pc = "got"
        /\ top.ret.ch # ""
        /\ Returns(RetCh(top.ret.ch))
  /\ UNCHANGED <<types, lex, stream, reads, log, input>>

Unnamed(ch) == ch
\* "EOF" for the empty string
OrEOF(ch) == IF ch = "" THEN "EOF" ELSE ch

\* expect(s): s is the frame's s, i counts the characters of s matched.
expect ==
  /\ Running("expect")
  /\ \/ /\ top.pc = "start"
        /\ Calls([top EXCEPT !.pc = "skipped"], Frame("skip"))
     \/ /\ top.pc = "skipped"
        /\ Calls([top EXCEPT !.pc = "char", !.i = 0], Frame("nextChar"))
     \/ /\ top.pc = "char"
        /\ top.ret.ch # CharAt(top.s, top.i)
        /\ Throws(error("Expected " \o top.s \o ", got: " \o OrEOF(top.ret.ch)))
     \/ /\ top.pc = "char"
        /\ top.ret.ch = CharAt(top.s, top.i)
        /\ top.i + 1 < Len(top.s)
        /\ Calls([top EXCEPT !.i = @ + 1], Frame("nextChar"))
     \/ /\ top.pc = "char"
        /\ top.ret.ch = CharAt(top.s, top.i)
        /\ top.i + 1 >= Len(top.s)
        /\ Returns(NoRet)
  /\ UNCHANGED <<types, lex, stream, reads, log, input>>

skip ==
  /\ Running("skip")
  /\ \/ /\ top.pc = "start"
        /\ Calls([top EXCEPT !.pc = "peeked"], Frame("peek"))
     \/ /\ top.pc = "peeked"
        /\ isWhite(top.ret.ch)
        /\ Calls([top EXCEPT !.pc = "consumed", !.ch = top.ret.ch], Frame("nextChar"))
     \/ /\ top.pc = "peeked"
        /\ ~isWhite(top.ret.ch)
        /\ Returns(NoRet)
     \/ /\ top.pc = "consumed"
        /\ Calls([top EXCEPT !.pc = "peeked"], Frame("peek"))
  /\ UNCHANGED <<types, lex, stream, reads, log, input>>

skipAndPeek ==
  /\ Running("skipAndPeek")
  /\ \/ /\ top.pc = "start"
        /\ Calls([top EXCEPT !.pc = "skipped"], Frame("skip"))
     \/ /\ top.pc = "skipped"
        /\ Calls([top EXCEPT !.pc = "peeked"], Frame("peek"))
     \/ /\ top.pc = "peeked"
        /\ Returns(RetCh(top.ret.ch))
  /\ UNCHANGED <<types, lex, stream, reads, log, input>>

\* skipAndExpect(delim): delim is the frame's s.
skipAndExpect ==
  /\ Running("skipAndExpect")
  /\ \/ /\ top.pc = "start"
        /\ Calls([top EXCEPT !.pc = "skipped"], Frame("skip"))
     \/ /\ top.pc = "skipped"
        /\ Calls([top EXCEPT !.pc = "char"], Frame("nextChar"))
     \/ /\ top.pc = "char"
        /\ top.ret.ch # top.s
        /\ Throws(error("Expected " \o top.s \o " but got: " \o OrEOF(top.ret.ch) \o "."))
     \/ /\ top.pc = "char"
        /\ top.ret.ch = top.s
        /\ Returns(NoRet)
  /\ UNCHANGED <<types, lex, stream, reads, log, input>>


(***************************************************************************)
(* class Lex: the token consumers.                                         *)
(***************************************************************************)
HexDigits == {"0", "1", "2", "3", "4", "5", "6", "7", "8", "9",
              "a", "b", "c", "d", "e", "f", "A", "B", "C", "D", "E", "F"}

HexDigitValue(ch) ==
  CASE isDigit(ch) -> DigitValue(ch)
    [] ch \in {"a", "A"} -> 10 [] ch \in {"b", "B"} -> 11 [] ch \in {"c", "C"} -> 12
    [] ch \in {"d", "D"} -> 13 [] ch \in {"e", "E"} -> 14 [] ch \in {"f", "F"} -> 15

HexValue(hex) ==
  4096 * HexDigitValue(CharAt(hex, 0)) + 256 * HexDigitValue(CharAt(hex, 1))
  + 16 * HexDigitValue(CharAt(hex, 2)) + HexDigitValue(CharAt(hex, 3))

\* The character with code n: itself for the characters the inputs use,
\* and a name of its own for any other.
FromCharCode(n) ==
  CASE n = 10 -> "\n" [] n = 32 -> " " [] n = 34 -> "\"" [] n = 47 -> "/"
    [] n = 48 -> "0" [] n = 65 -> "A" [] n = 92 -> "\\" [] n = 97 -> "a"
    [] n = 118 -> "v"
    [] OTHER -> "\\u{" \o ToString(n) \o "}"

IsHex4(hex) == \A i \in 0..3 : CharAt(hex, i) \in HexDigits

\* unescape: buf collects the four characters after \u.
unescape ==
  /\ Running("unescape")
  /\ \/ /\ top.pc = "start"
        /\ Calls([top EXCEPT !.pc = "got"], Frame("mustChar"))
     \/ /\ top.pc = "got"
        /\ top.ret.ch \in {"\"", "\\"}
        /\ Returns(RetCh(top.ret.ch))
     \/ /\ top.pc = "got"
        /\ top.ret.ch \in {"b", "f", "n", "r", "t"}
        /\ Returns(RetCh(CASE top.ret.ch = "b" -> "\\u{8}" [] top.ret.ch = "f" -> "\f"
                           [] top.ret.ch = "n" -> "\n" [] top.ret.ch = "r" -> "\r"
                           [] top.ret.ch = "t" -> "\t"))
     \/ /\ top.pc = "got"
        /\ top.ret.ch = "u"
        /\ Calls([top EXCEPT !.pc = "hex", !.buf = ""], Frame("mustChar"))
     \/ /\ top.pc = "got"
        /\ top.ret.ch \notin {"\"", "\\", "b", "f", "n", "r", "t", "u"}
        /\ Throws(error("Invalid escaped character."))
     \/ /\ top.pc = "hex"
        /\ Len(top.buf) < 3
        /\ Calls([top EXCEPT !.buf = @ \o top.ret.ch], Frame("mustChar"))
     \/ /\ top.pc = "hex"
        /\ Len(top.buf) = 3
        /\ IsHex4(top.buf \o top.ret.ch)
        /\ Returns(RetCh(FromCharCode(HexValue(top.buf \o top.ret.ch))))
     \/ /\ top.pc = "hex"
        /\ Len(top.buf) = 3
        /\ ~IsHex4(top.buf \o top.ret.ch)
        /\ Throws(NativeSyntaxError("Bad Unicode escape in JSON"))
  /\ UNCHANGED <<types, lex, stream, reads, log, input>>

booleanLiteral ==
  /\ Running("booleanLiteral")
  /\ \/ /\ top.pc = "start"
        /\ Calls([top EXCEPT !.pc = "peeked"], Frame("skipAndPeek"))
     \/ /\ top.pc = "peeked"
        /\ top.ret.ch = "t"
        /\ Calls([top EXCEPT !.pc = "true"], [Frame("expect") EXCEPT !.s = "true"])
     \/ /\ top.pc = "peeked"
        /\ top.ret.ch = "f"
        /\ Calls([top EXCEPT !.pc = "false"], [Frame("expect") EXCEPT !.s = "false"])
     \/ /\ top.pc = "peeked"
        /\ top.ret.ch \notin {"t", "f"}
        /\ Throws(error("Expected true or false, got: " \o top.ret.ch))
     \/ /\ top.pc = "true"
        /\ Returns(RetVal(BoolValue(TRUE)))
     \/ /\ top.pc = "false"
        /\ Returns(RetVal(BoolValue(FALSE)))
  /\ UNCHANGED <<types, lex, stream, reads, log, input>>

readDigits ==
  /\ Running("readDigits")
  /\ \/ /\ top.pc = "start"
        /\ Calls([top EXCEPT !.pc = "peeked", !.buf = ""], Frame("peek"))
     \/ /\ top.pc = "peeked"
        /\ isDigit(top.ret.ch)
        /\ Calls([top EXCEPT !.pc = "consumed"], Frame("nextChar"))
     \/ /\ top.pc = "peeked"
        /\ ~isDigit(top.ret.ch)
        /\ Returns(RetCh(top.buf))
     \/ /\ top.pc = "consumed"
        /\ Calls([top EXCEPT !.pc = "peeked", !.buf = @ \o top.ret.ch], Frame("peek"))
  /\ UNCHANGED <<types, lex, stream, reads, log, input>>

\* A test that lets every integer part through.
NoLeadingZeroes(digits) == FALSE

\* A test that leaves the length of the integer part out.
LeadingZero(digits) == CharAt(digits, 0) = "0"

\* digits[0] === "0" && digits.length > 1
LeadingZeroes(digits) == CharAt(digits, 0) = "0" /\ Len(digits) > 1

\* numberLiteral: ch is the local first, buf the local buf.
numberLiteral ==
  /\ Running("numberLiteral")
  /\ \/ /\ top.pc = "start"
        /\ Calls([top EXCEPT !.pc = "skipped"], Frame("skip"))
     \/ /\ top.pc = "skipped"
        /\ Calls([top EXCEPT !.pc = "first", !.buf = ""], Frame("peek"))
     \/ /\ top.pc = "first"
        /\ top.ret.ch # "-"
        /\ ~isDigit(top.ret.ch)
        /\ Throws(error("Expected number, got: " \o top.ret.ch))
     \/ /\ top.pc = "first"
        /\ top.ret.ch = "-"
        /\ Calls([top EXCEPT !.pc = "minus"], Frame("nextChar"))
     \/ /\ top.pc = "first"
        /\ isDigit(top.ret.ch)
        /\ Calls([top EXCEPT !.pc = "digits"], Frame("readDigits"))
     \/ /\ top.pc = "minus"
        /\ Calls([top EXCEPT !.pc = "digits", !.buf = @ \o top.ret.ch], Frame("readDigits"))
     \/ /\ top.pc = "digits"
        /\ top.ret.ch = ""
        /\ Throws(error("Expected number."))
     \/ /\ top.pc = "digits"
        /\ top.ret.ch # ""
        /\ LeadingZeroes(top.ret.ch)
        /\ Throws(error("Invalid number (leading zeroes.)"))
     \/ /\ top.pc = "digits"
        /\ top.ret.ch # ""
        /\ ~LeadingZeroes(top.ret.ch)
        /\ Calls([top EXCEPT !.pc = "dot?", !.buf = @ \o top.ret.ch], Frame("peek"))
     \/ /\ top.pc = "dot?"
        /\ top.ret.ch = "."
        /\ Calls([top EXCEPT !.pc = "dot"], Frame("nextChar"))
     \/ /\ top.pc = "dot?"
        /\ top.ret.ch # "."
        /\ Calls([top EXCEPT !.pc = "e?"], Frame("peek"))
     \/ /\ top.pc = "dot"
        /\ Calls([top EXCEPT !.pc = "fraction", !.buf = @ \o top.ret.ch], Frame("readDigits"))
     \/ /\ top.pc = "fraction"
        /\ top.ret.ch = ""
        /\ Throws(error("Invalid number (empty fraction.)"))
     \/ /\ top.pc = "fraction"
        /\ top.ret.ch # ""
        /\ Calls([top EXCEPT !.pc = "e?", !.buf = @ \o top.ret.ch], Frame("peek"))
     \/ /\ top.pc = "e?"
        /\ top.ret.ch \in {"e", "E"}
        /\ Calls([top EXCEPT !.pc = "e"], Frame("nextChar"))
     \/ /\ top.pc = "e?"
        /\ top.ret.ch \notin {"e", "E"}
        /\ Returns(RetVal(JSONparseNumber(top.buf)))
     \/ /\ top.pc = "e"
        /\ Calls([top EXCEPT !.pc = "sign?", !.buf = @ \o top.ret.ch], Frame("peek"))
     \/ /\ top.pc = "sign?"
        /\ top.ret.ch \in {"+", "-"}
        /\ Calls([top EXCEPT !.pc = "sign"], Frame("nextChar"))
     \/ /\ top.pc = "sign?"
        /\ top.ret.ch \notin {"+", "-"}
        /\ Calls([top EXCEPT !.pc = "exponent"], Frame("readDigits"))
     \/ /\ top.pc = "sign"
        /\ Calls([top EXCEPT !.pc = "exponent", !.buf = @ \o top.ret.ch], Frame("readDigits"))
     \/ /\ top.pc = "exponent"
        /\ top.ret.ch = ""
        /\ Throws(error("Invalid number (empty exponent.)"))
     \/ /\ top.pc = "exponent"
        /\ top.ret.ch # ""
        /\ Returns(RetVal(JSONparseNumber(top.buf \o top.ret.ch)))
  /\ UNCHANGED <<types, lex, stream, reads, log, input>>

\* stringLiteral: buf is the local result.
stringLiteral ==
  /\ Running("stringLiteral")
  /\ \/ /\ top.pc = "start"
        /\ Calls([top EXCEPT !.pc = "opened"], [Frame("skipAndExpect") EXCEPT !.s = "\""])
     \/ /\ top.pc = "opened"
        /\ Calls([top EXCEPT !.pc = "char", !.buf = ""], Frame("nextChar"))
     \/ /\ top.pc = "char"
        /\ top.ret.ch = "\""
        /\ Returns(RetCh(top.buf))
     \/ /\ top.pc = "char"
        /\ top.ret.ch # "\""
        /\ lex.eof
        /\ Throws(error("Expected \" but got EOF."))
     \/ /\ top.pc = "char"
        /\ top.ret.ch = "\\"
        /\ ~lex.eof
        /\ Calls([top EXCEPT !.pc = "unescaped"], Frame("unescape"))
     \/ /\ top.pc = "char"
        /\ top.ret.ch \notin {"\"", "\\"}
        /\ ~lex.eof
        /\ Calls([top EXCEPT !.buf = @ \o top.ret.ch], Frame("nextChar"))
     \/ /\ top.pc = "unescaped"
        /\ Calls([top EXCEPT !.pc = "char", !.buf = @ \o top.ret.ch], Frame("nextChar"))
  /\ UNCHANGED <<types, lex, stream, reads, log, input>>


(***************************************************************************)
(* History: every handler lookup made, what each object parser did (with   *)
(* the cursor's position and the value at hand), the original sample of    *)
(* each object parser, and the threads that consumed a character.          *)
(***************************************************************************)
NoLog == [lookups |-> <<>>, events |-> <<>>, parsers |-> <<>>, consumers |-> {},
          base |-> 0]

Looked(site, sample) ==
  [log EXCEPT !.lookups =
     Append(@, [site |-> site, kind |-> sample.kind, chosen |-> Find(types, sample)])]

Event(l, id, what, key, arg) ==
  [l EXCEPT !.events = Append(@, [id |-> id, what |-> what, key |-> key, arg |-> arg,
                                  line |-> lex.lineNo, col |-> lex.charNo])]

TypeFrame(sample) ==
  [Frame("type.parse") EXCEPT !.type = Find(types, sample).name, !.sample = sample]

(***************************************************************************)
(* class ObjectParser.                                                     *)
(***************************************************************************)
\* sample[afterParse](target), for the hooks of the inputs: after lists
\* <<new key, key of target>> pairs, and the hook returns the object built
\* from them.
AfterParse(after, target) ==
  ObjectValue([i \in 1..Len(after) |-> after[i][1]],
              [i \in 1..Len(after) |-> GetKey(target, after[i][2])])

\* k in parsed
In(k, parsed) == HasKey(parsed, k) \/ k \in InheritedKeys

\* The property the default checker reports: the first k of the for-in
\* enumeration of sample with typeof(sample[k] !== "function") truthy (the
\* typeof of a boolean is the non-empty string "boolean") and k not in
\* parsed; 0 if there is none.
Missing(sample, parsed) ==
  IF \E i \in 1..Len(sample.keys) : ~In(sample.keys[i], parsed)
  THEN CHOOSE i \in 1..Len(sample.keys) :
         /\ ~In(sample.keys[i], parsed)
         /\ \A j \in 1..(i - 1) : In(sample.keys[j], parsed)
  ELSE 0

\* Lex.object with the constructor of ObjectParser; the frame's i is the
\* number of the parser (history).
object ==
  /\ Running("object")
  /\ \/ /\ top.pc = "start"
        /\ top.sample.kind = "null"
        /\ Throws(TypeError("Cannot use 'in' operator to search for 'Symbol(beforeParse)' in null"))
        /\ UNCHANGED log
     \/ /\ top.pc = "start"
        /\ top.sample.kind # "null"
        /\ top.sample.before # <<>>
        /\ Calls([top EXCEPT !.pc = "parsed"],
                 [Frame("ObjectParser.parse") EXCEPT
                    !.original = top.sample, !.template = top.sample.before[1],
                    !.target = ObjectValue(<<>>, <<>>), !.i = Len(log.parsers) + 1])
        /\ log' = Event([log EXCEPT !.parsers = Append(@, top.sample)],
                        Len(log.parsers) + 1, "beforeParse", "", Undefined)
     \/ /\ top.pc = "start"
        /\ top.sample.kind # "null"
        /\ top.sample.before = <<>>
        /\ Calls([top EXCEPT !.pc = "parsed"],
                 [Frame("ObjectParser.parse") EXCEPT
                    !.original = top.sample, !.template = top.sample,
                    !.target = ObjectValue(<<>>, <<>>), !.i = Len(log.parsers) + 1])
        /\ log' = [log EXCEPT !.parsers = Append(@, top.sample)]
     \/ /\ top.pc = "parsed"
        /\ Returns(RetVal(top.ret.val))
        /\ UNCHANGED log
  /\ UNCHANGED <<types, lex, stream, reads, input>>

\* addProperty(key): key is the frame's s; this.template and this.target
\* are those of the calling frame, ObjectParser.parse.
addProperty ==
  /\ Running("addProperty")
  /\ LET n == Len(stack)
         this == stack[n - 1]
     IN
     \/ /\ top.pc = "start"
        /\ ~KeyIn(top.s, this.template)
        /\ Throws(error("No such property: " \o top.s))
        /\ log' = Event(log, this.i, "addProperty", top.s, Undefined)
     \/ /\ top.pc = "start"
        /\ KeyIn(top.s, this.template)
        /\ Calls([top EXCEPT !.pc = "skipped"], Frame("skip"))
        /\ log' = Event(log, this.i, "addProperty", top.s, Undefined)
     \/ /\ top.pc = "skipped"
        /\ Calls([top EXCEPT !.pc = "parsed", !.sample = Prop(this.template, top.s)],
                 TypeFrame(Prop(this.template, top.s)))
        /\ log' = Event(Looked("addProperty", Prop(this.template, top.s)),
                        this.i, "dispatch", top.s, Undefined)
     \/ /\ top.pc = "parsed"
        /\ threads' = [threads EXCEPT ![cur] =
                         [Front(stack) EXCEPT
                            ![n - 1].ret = NoRet,
                            ![n - 1].target =
                               IF top.s = "__proto__" THEN @
                               ELSE SetKey(@, top.s, top.ret.val)]]
        /\ queue' = Append(rest, cur)
        /\ run' = Front(active)
        /\ log' = Event(log, this.i, "assign", top.s, top.ret.val)
        /\ UNCHANGED outcome
  /\ UNCHANGED <<types, lex, stream, reads, input>>

\* An end of ObjectParser.parse that checks the internal result, before the
\* post-parse hook runs.
CheckBeforeHook ==
  LET result == IF top.original.after # <<>>
                THEN AfterParse(top.original.after, top.target)
                ELSE top.target
      checkLog == Event(log, top.i, "check", "", top.target)
      k == Missing(top.original, top.target)
  IN
  /\ log' = IF top.original.after # <<>>
            THEN Event(checkLog, top.i, "afterParse", "", top.target) ELSE checkLog
  /\ IF k # 0
     THEN Throws(error("Missing required property: " \o top.original.keys[k]))
     ELSE Returns(RetVal(result))

\* The end of ObjectParser.parse: the post-parse hook, the checker, the
\* return.
Complete ==
  LET result == IF top.original.after # <<>>
                THEN AfterParse(top.original.after, top.target)
                ELSE top.target
      afterLog == IF top.original.after # <<>>
                  THEN Event(log, top.i, "afterParse", "", top.target) ELSE log
      k == Missing(top.original, result)
  IN
  /\ log' = Event(afterLog, top.i, "check", "", result)
  /\ IF k # 0
     THEN Throws(error("Missing required property: " \o top.original.keys[k]))
     ELSE Returns(RetVal(result))

\* ObjectParser.parse: ch is the local ch, s the local key.
ObjectParserParse ==
  /\ Running("ObjectParser.parse")
  /\ \/ /\ top.pc = "start"
        /\ Calls([top EXCEPT !.pc = "opened"], [Frame("skipAndExpect") EXCEPT !.s = "{"])
        /\ UNCHANGED log
     \/ /\ top.pc = "opened"
        /\ Calls([top EXCEPT !.pc = "first"], Frame("skipAndPeek"))
        /\ UNCHANGED log
     \/ /\ top.pc = "first"
        /\ top.ret.ch = "\""
        /\ Calls([top EXCEPT !.pc = "key", !.ch = top.ret.ch], Frame("stringLiteral"))
        /\ UNCHANGED log
     \/ /\ top.pc = "first"
        /\ top.ret.ch # "\""
        /\ Calls([top EXCEPT !.pc = "closed", !.ch = top.ret.ch],
                 [Frame("skipAndExpect") EXCEPT !.s = "}"])
        /\ UNCHANGED log
     \/ /\ top.pc = "key"
        /\ Calls([top EXCEPT !.pc = "colon", !.s = top.ret.ch],
                 [Frame("skipAndExpect") EXCEPT !.s = ":"])
        /\ log' = Event(log, top.i, "key", top.ret.ch, Undefined)
     \/ /\ top.pc = "colon"
        /\ Calls([top EXCEPT !.pc = "added"], [Frame("addProperty") EXCEPT !.s = top.s])
        /\ UNCHANGED log
     \/ /\ top.pc = "added"
        /\ Calls([top EXCEPT !.pc = "delim"], Frame("skipAndPeek"))
        /\ UNCHANGED log
     \/ /\ top.pc = "delim"
        /\ top.ret.ch = ","
        /\ Calls([top EXCEPT !.pc = "comma", !.ch = top.ret.ch], Frame("nextChar"))
        /\ UNCHANGED log
     \/ /\ top.pc = "delim"
        /\ top.ret.ch = "}"
        /\ Calls([top EXCEPT !.pc = "closed", !.ch = top.ret.ch],
                 [Frame("skipAndExpect") EXCEPT !.s = "}"])
        /\ UNCHANGED log
     \/ /\ top.pc = "delim"
        /\ top.ret.ch \notin {",", "}"}
        /\ Throws(error("Expected , or } but got: " \o OrEOF(top.ret.ch)))
        /\ UNCHANGED log
     \/ /\ top.pc = "comma"
        /\ Calls([top EXCEPT !.pc = "first"], Frame("skipAndPeek"))
        /\ UNCHANGED log
     \/ \* this.lex.skip(), not awaited: a thread of its own, which runs
        \* now, up to its first await
        /\ top.pc = "closed"
        /\ threads' = Append([threads EXCEPT ![cur][Len(stack)].pc = "skipping"],
                             <<Frame("skip")>>)
        /\ run' = Append(active, Len(threads) + 1)
        /\ queue' = rest
        /\ log' = Event(log, top.i, "closed", "", Undefined)
        /\ UNCHANGED outcome
     \/ /\ top.pc = "skipping"
        /\ Complete
  /\ UNCHANGED <<types, lex, stream, reads, input>>


(***************************************************************************)
(* The handlers' parse functions.                                          *)
(***************************************************************************)
BuiltinNames == {"boolean", "number", "date", "string", "array", "object", "fail"}

\* new Date(string) of the strings the inputs use: isNaN(getTime()) is
\* false for these and true for every other.
ValidDates == {"1970-01-01", "2000"}

\* gen.next() of a generator that is suspended at its start or at a yield:
\* the generator runs on, in the job of the caller.
Resumes(f, gen) == Calls([f EXCEPT !.gen = <<>>], [gen EXCEPT !.ret = NoRet])

booleanParse ==
  /\ Running("type.parse")
  /\ top.type = "boolean"
  /\ \/ /\ top.pc = "start"
        /\ Calls([top EXCEPT !.pc = "done"], Frame("booleanLiteral"))
     \/ /\ top.pc = "done"
        /\ Returns(RetVal(top.ret.val))
  /\ UNCHANGED <<types, lex, stream, reads, log, input>>

numberParse ==
  /\ Running("type.parse")
  /\ top.type = "number"
  /\ \/ /\ top.pc = "start"
        /\ Calls([top EXCEPT !.pc = "done"], Frame("numberLiteral"))
     \/ /\ top.pc = "done"
        /\ Returns(RetVal(top.ret.val))
  /\ UNCHANGED <<types, lex, stream, reads, log, input>>

dateParse ==
  /\ Running("type.parse")
  /\ top.type = "date"
  /\ \/ /\ top.pc = "start"
        /\ Calls([top EXCEPT !.pc = "string"], Frame("stringLiteral"))
     \/ /\ top.pc = "string"
        /\ top.ret.ch \notin ValidDates
        /\ Throws(error("Expected date, got " \o top.ret.ch \o "."))
     \/ /\ top.pc = "string"
        /\ top.ret.ch \in ValidDates
        /\ Returns(RetVal(DateValue(top.ret.ch)))
  /\ UNCHANGED <<types, lex, stream, reads, log, input>>

stringParse ==
  /\ Running("type.parse")
  /\ top.type = "string"
  /\ \/ /\ top.pc = "start"
        /\ Calls([top EXCEPT !.pc = "done"], Frame("stringLiteral"))
     \/ /\ top.pc = "done"
        /\ Returns(RetVal(StringValue(top.ret.ch)))
  /\ UNCHANGED <<types, lex, stream, reads, log, input>>

\* A test that finds a sample element in every sample array.
NeverEmpty(array) == FALSE

\* array.length === 0
IsEmpty(array) == Len(array.props) = 0

\* (sample as any[])[0]
SampleElement(array) == IF array.props = <<>> THEN NoSample ELSE array.props[1]

\* the array handler: target is the local result, gen the generator of the
\* for await loop while it is suspended
arrayParse ==
  /\ Running("type.parse")
  /\ top.type = "array"
  /\ \/ /\ top.pc = "start"
        /\ IsEmpty(top.sample)
        /\ Throws(error("No sample element in sample array."))
     \/ /\ top.pc = "start"
        /\ ~IsEmpty(top.sample)
        /\ Resumes([top EXCEPT !.pc = "next", !.target = ArrayValue(<<>>)],
                   [Frame("Lex.elements") EXCEPT !.sample = SampleElement(top.sample)])
     \/ /\ top.pc = "next"
        /\ ~top.ret.done
        /\ Resumes([top EXCEPT !.target.items = Append(@, top.ret.val)], top.gen[1])
     \/ /\ top.pc = "next"
        /\ top.ret.done
        /\ Returns(RetVal(top.target))
  /\ UNCHANGED <<types, lex, stream, reads, log, input>>

\* the object handler returns the promise of lex.object without awaiting
\* it: its own promise follows that one, one job later
objectParse ==
  /\ Running("type.parse")
  /\ top.type = "object"
  /\ \/ /\ top.pc = "start"
        /\ Calls([top EXCEPT !.pc = "forward"], [Frame("object") EXCEPT !.sample = top.sample])
     \/ /\ top.pc = "forward"
        /\ Returns(RetVal(top.ret.val))
  /\ UNCHANGED <<types, lex, stream, reads, log, input>>

failParse ==
  /\ Running("type.parse")
  /\ top.type = "fail"
  /\ top.pc = "start"
  /\ Throws(TypeError("Unsupported type"))
  /\ UNCHANGED <<types, lex, stream, reads, log, input>>

\* a registered handler, such as the usdType of the tests:
\* new USD(await lex.numberLiteral())
customParse ==
  /\ Running("type.parse")
  /\ top.type \notin BuiltinNames
  /\ \/ /\ top.pc = "start"
        /\ Calls([top EXCEPT !.pc = "done"], Frame("numberLiteral"))
     \/ /\ top.pc = "done"
        /\ Returns(RetVal(CustomValue(top.type, top.ret.val)))
  /\ UNCHANGED <<types, lex, stream, reads, log, input>>

(***************************************************************************)
(* Lex.elements, an async generator.  A yield awaits the promise of        *)
(* type.parse, hands the value to the pending next() and suspends the      *)
(* generator; the frame is kept by the caller until its next next().       *)
(***************************************************************************)
Yields(v) ==
  LET n == Len(stack) IN
  /\ threads' = [threads EXCEPT ![cur] =
                   [Front(stack) EXCEPT
                      ![n - 1].ret = RetVal(v),
                      ![n - 1].gen = <<[top EXCEPT !.pc = "yielded", !.ret = NoRet]>>]]
  /\ queue' = Append(rest, cur)
  /\ run' = Front(active)
  /\ UNCHANGED outcome

Done(v) == [NoRet EXCEPT !.done = TRUE, !.val = v]

LexElements ==
  /\ Running("Lex.elements")
  /\ \/ /\ top.pc = "start"
        /\ Calls([top EXCEPT !.pc = "opened", !.type = Find(types, top.sample).name],
                 [Frame("skipAndExpect") EXCEPT !.s = "["])
        /\ log' = Looked("elements", top.sample)
     \/ /\ top.pc \in {"opened", "comma"}
        /\ Calls([top EXCEPT !.pc = "loop"], Frame("skipAndPeek"))
        /\ UNCHANGED log
     \/ /\ top.pc = "loop"
        /\ top.ret.ch # "]"
        /\ Calls([top EXCEPT !.pc = "value", !.ch = top.ret.ch],
                 [Frame("type.parse") EXCEPT !.type = top.type, !.sample = top.sample])
        /\ UNCHANGED log
     \/ /\ top.pc = "loop"
        /\ top.ret.ch = "]"
        /\ Calls([top EXCEPT !.pc = "closed", !.ch = top.ret.ch],
                 [Frame("expect") EXCEPT !.s = "]"])
        /\ UNCHANGED log
     \/ /\ top.pc = "value"
        /\ Yields(top.ret.val)
        /\ UNCHANGED log
     \/ /\ top.pc = "yielded"
        /\ Calls([top EXCEPT !.pc = "delim"], Frame("skipAndPeek"))
        /\ UNCHANGED log
     \/ /\ top.pc = "delim"
        /\ top.ret.ch = ","
        /\ Calls([top EXCEPT !.pc = "comma"], Frame("nextChar"))
        /\ UNCHANGED log
     \/ /\ top.pc = "delim"
        /\ top.ret.ch = "]"
        /\ Calls([top EXCEPT !.pc = "loop"], Frame("skipAndPeek"))
        /\ UNCHANGED log
     \/ /\ top.pc = "delim"
        /\ top.ret.ch \notin {",", "]"}
        /\ Throws(error("Expected , or ] but got: " \o OrEOF(top.ret.ch)))
        /\ UNCHANGED log
     \/ /\ top.pc = "closed"
        /\ Returns(Done(Undefined))
        /\ UNCHANGED log
  /\ UNCHANGED <<types, lex, stream, reads, input>>

(***************************************************************************)
(* The entry points.                                                       *)
(***************************************************************************)
\* parse(sample, streamParam): target is the local result.
parse ==
  /\ Running("parse")
  /\ \/ /\ top.pc = "start"
        /\ Calls([top EXCEPT !.pc = "parsed"], TypeFrame(top.sample))
        /\ log' = Looked("parse", top.sample)
     \/ /\ top.pc = "parsed"
        /\ Calls([top EXCEPT !.pc = "skipped", !.target = top.ret.val], Frame("skip"))
        /\ UNCHANGED log
     \/ /\ top.pc = "skipped"
        /\ Calls([top EXCEPT !.pc = "peeked"], Frame("peek"))
        /\ UNCHANGED log
     \/ /\ top.pc = "peeked"
        /\ top.ret.ch # ""
        /\ Throws(error("Expected one JSON element, got extra data."))
        /\ UNCHANGED log
     \/ /\ top.pc = "peeked"
        /\ top.ret.ch = ""
        /\ Returns(RetVal(top.target))
        /\ UNCHANGED log
  /\ UNCHANGED <<types, lex, stream, reads, input>>

\* The generator object lex.elements(sample) makes; its body has not run.
AsyncGenerator == [Undefined EXCEPT !.t = "AsyncGenerator"]

\* elements(elementSample, streamParam), an async generator whose body is
\* return lex.elements(elementSample): the return awaits its operand, which
\* is no promise, and the generator is done, with that operand as its
\* return value.
elements ==
  /\ Running("elements")
  /\ \/ /\ top.pc = "start"
        /\ threads' = [threads EXCEPT ![cur][Len(stack)].pc = "return"]
        /\ queue' = Append(rest, cur)
        /\ run' = Front(active)
        /\ UNCHANGED outcome
     \/ /\ top.pc = "return"
        /\ Returns(Done(AsyncGenerator))
  /\ UNCHANGED <<types, lex, stream, reads, log, input>>

\* The caller of an element sequence:
\*   for await (const x of sequence) { ...; result.push(x) }
\* The body of the caller's loop may await (at most MaxBodyAwaits times,
\* counted in i) before the loop pulls again.
consume ==
  /\ Running("consume")
  /\ \/ /\ top.pc = "start"
        /\ Resumes([top EXCEPT !.pc = "next", !.target = ArrayValue(<<>>)],
                   [Frame(input.entry) EXCEPT !.sample = top.sample])
     \/ /\ top.pc = "next"
        /\ ~top.ret.done
        /\ top.i < MaxBodyAwaits
        /\ threads' = [threads EXCEPT ![cur][Len(stack)].i = @ + 1]
        /\ queue' = Append(rest, cur)
        /\ run' = Front(active)
        /\ UNCHANGED outcome
     \/ /\ top.pc = "next"
        /\ ~top.ret.done
        /\ Resumes([top EXCEPT !.target.items = Append(@, top.ret.val), !.i = 0],
                   top.gen[1])
     \/ /\ top.pc = "next"
        /\ top.ret.done
        /\ Returns(RetVal(top.target))
  /\ UNCHANGED <<types, lex, stream, reads, log, input>>

addType(type) ==
  /\ threads = <<>>
  /\ Len(types) < Len(BuiltinTypes) + MaxAddType
  /\ types' = PushAndSort(types, type)
  /\ UNCHANGED <<lex, stream, reads, threads, queue, run, outcome, log, input>>


(***************************************************************************)
(* The calls under test.  A document is a sequence of tokens; the          *)
(* reference call parses the tokens alone, and a second call parses a      *)
(* variant of the document: whitespace put between tokens, text added      *)
(* after the last.                                                         *)
(***************************************************************************)
RECURSIVE Join(_, _)
\* gaps[1] tokens[1] gaps[2] ... tokens[n] gaps[n + 1]
Join(tokens, gaps) ==
  IF tokens = <<>> THEN gaps[1]
  ELSE gaps[1] \o tokens[1] \o Join(Tail(tokens), Tail(gaps))

NoGaps(tokens) == [i \in 1..(Len(tokens) + 1) |-> ""]

RECURSIVE Repeat(_, _)
Repeat(ch, n) == IF n = 0 THEN "" ELSE ch \o Repeat(ch, n - 1)

\* toStream of a string: one chunk, none for the empty string
Chunks(text) == IF text = "" THEN <<>> ELSE <<text>>

\* A stream the caller makes, which delivers text in chunks that end at the
\* positions of cuts (a subset of 1..Len(text) - 1), decoded: from gives the
\* characters delivered already.
RECURSIVE SplitFrom(_, _, _)
SplitFrom(text, cuts, from) ==
  LET later == {c \in cuts : c > from} IN
  IF later = {} THEN Chunks(SubSeq(text, from + 1, Len(text)))
  ELSE LET c == CHOOSE x \in later : \A y \in later : x <= y IN
       <<SubSeq(text, from + 1, c)>> \o SplitFrom(text, cuts, c)

Split(text, cuts) == SplitFrom(text, cuts, 0)

StringSample == Prim("string")
NumberSample == Prim("number")
BooleanSample == Prim("boolean")
EmptySample == Obj(<<>>, <<>>)
SmallSample == Obj(<<"s">>, <<StringSample>>)
NestedSample == Obj(<<"a", "n">>, <<EmptySample, NumberSample>>)
TransformSample ==
  [Obj(<<"x", "y">>, <<NumberSample, NumberSample>>) EXCEPT
     !.before = <<Obj(<<"a", "b">>, <<NumberSample, NumberSample>>)>>,
     !.after = <<<<"x", "a">>, <<"y", "b">>>>]
USDSample == [Obj(<<"cents", "toString">>, <<NumberSample, Prim("function")>>)
                EXCEPT !.kind = "USD"]

Call(entry, sample, tokens) == [entry |-> entry, sample |-> sample, tokens |-> tokens]

\* Documents whose variants are parsed as well.
VariantCalls ==
  { Call("parse", SmallSample, <<"{", "\"s\"", ":", "\"v\"", "}">>),
    Call("parse", NestedSample,
         <<"{", "\"a\"", ":", "{", "}", ",", "\"n\"", ":", "1", "}">>),
    Call("parse", NestedSample, <<"{", "\"a\"", ":", "{", "}", "}">>),
    Call("parse", NumberSample, <<"11">>),
    Call("parse", ArrayOf(<<NumberSample>>), <<"[", "1", ",", "2", "]">>),
    Call("parse", ArrayOf(<<EmptySample>>), <<"[", "{", "}", ",", "{", "}", "]">>) }

\* Calls that look a sample up at each of the three places.
RegistryCalls ==
  { Call("parse", USDSample, <<"1">>),
    Call("parse", Obj(<<"m">>, <<USDSample>>), <<"{", "\"m\"", ":", "1", "}">>),
    Call("parse", ArrayOf(<<BooleanSample>>), <<"[", "1", "]">>),
    Call("parse", Prim("function"), <<"1">>) }

\* A sample with a property whose value is a function.
CallbackSample == Obj(<<"s", "f">>, <<StringSample, Prim("function")>>)

ObjectCalls ==
  { Call("parse", SmallSample, <<"{", "}">>),
    Call("parse", CallbackSample, <<"{", "\"s\"", ":", "\"v\"", "}">>),
    Call("parse", CallbackSample, <<"{", "}">>),
    Call("parse", SmallSample, <<"{", "\"p\"", ":", "\"v\"", "}">>),
    Call("parse", SmallSample, <<"{", "\"s\"", ":", "\"v\"">>),
    Call("parse", SmallSample,
         <<"{", "\"s\"", ":", "\"v\"", ",", "\"__proto__\"", ":", "{", "}", "}">>),
    Call("parse", SmallSample, <<"{", "\"toString\"", ":", "1", "}">>),
    Call("parse", Obj(<<"toString">>, <<StringSample>>), <<"{", "}">>),
    Call("parse", Obj(<<"n">>, <<Prim("null")>>), <<"{", "\"n\"", ":", "{", "}", "}">>),
    Call("parse", TransformSample,
         <<"{", "\"a\"", ":", "11", ",", "\"b\"", ":", "22", "}">>),
    Call("parse", TransformSample, <<"{", "\"a\"", ":", "11", "}">>),
    Call("parse", TransformSample,
         <<"{", "\"a\"", ":", "11", ",", "\"x\"", ":", "22", "}">>),
    Call("parse", Obj(<<"t">>, <<TransformSample>>),
         <<"{", "\"t\"", ":", "{", "\"b\"", ":", "2", "}", "}">>) }

PairSample == Obj(<<"a", "b">>, <<NumberSample, NumberSample>>)

\* Documents with the delimiters of an object in and out of place.
DelimiterCalls ==
  { Call("parse", SmallSample, <<"{", "\"s\"", ":", "\"v\"", ",", "}">>),
    Call("parse", SmallSample, <<"{", "\"s\"", ":", "\"v\"", "x">>),
    Call("parse", PairSample, <<"{", "\"a\"", ":", "1", ",", "\"b\"", ":", "2", "}">>),
    Call("parse", PairSample, <<"{", "\"a\"", ":", "1", ",", ",", "\"b\"", ":", "2", "}">>),
    Call("parse", PairSample, <<"{", "\"a\"", ":", "1", " ", "\"b\"", ":", "2", "}">>),
    Call("parse", PairSample, <<"{", ",", "\"a\"", ":", "1", "}">>) }

ScalarCalls ==
  { Call("parse", BooleanSample, <<"true">>),
    Call("parse", BooleanSample, <<"false">>),
    Call("parse", BooleanSample, <<"tru">>),
    Call("parse", BooleanSample, <<"1">>),
    Call("parse", NumberSample, <<"-1.5e1">>),
    Call("parse", NumberSample, <<"x">>),
    Call("parse", Prim("date"), <<"\"2000\"">>),
    Call("parse", Prim("date"), <<"\"v\"">>),
    Call("parse", StringSample, <<"\"\\n\\u0041\"">>),
    Call("parse", StringSample, <<"\"\\u00zz\"">>),
    Call("parse", StringSample, <<"\"\\/\"">>),
    Call("parse", StringSample, <<"\"\\">>),
    Call("parse", StringSample, <<"\"\\0\"">>),
    Call("parse", StringSample, <<"\"\\u00">>),
    Call("parse", StringSample, <<"\"\\b\\f\\r\\t\\\"\\\\\"">>),
    Call("parse", StringSample, <<"\"v">>) }

ElementCalls ==
  { Call("elements", NumberSample, <<"[", "11", ",", "22", ",", "33", ",", "44", "]">>),
    Call("Lex.elements", NumberSample, <<"[", "11", ",", "22", ",", "33", ",", "44", "]">>),
    Call("Lex.elements", NumberSample, <<"[", "1", " ", "2", "]">>),
    Call("Lex.elements", NumberSample, <<"[", "1", ",", "]">>),
    Call("Lex.elements", NumberSample, <<"[", "1", ",", "2", ",", "x", "]">>),
    Call("Lex.elements", EmptySample, <<"[", "{", "}", "  ", ",", "{", "}", "]">>),
    Call("parse", ArrayOf(<<NumberSample>>), <<"[", "1", ",", "]">>),
    Call("parse", ArrayOf(<<NumberSample>>), <<"[", "1", ",", ",", "2", "]">>),
    Call("parse", ArrayOf(<<NumberSample>>), <<"[", ",", "1", "]">>),
    Call("parse", ArrayOf(<<NumberSample>>), <<"[", "1", "\n", "2", " ", "3", "]">>),
    Call("parse", ArrayOf(<<NumberSample>>), <<"[", "1", ",", "2", "\n">>),
    Call("parse", ArrayOf(<<NumberSample>>), <<"[", "1", "}">>),
    Call("parse", ArrayOf(<<NumberSample>>), <<"[", "]">>) }

\* Calls whose sample has an array without a sample element, at the root,
\* in a property and as the element of an array.
EmptyArrayCalls ==
  { Call("parse", ArrayOf(<<>>), <<"[", "]">>),
    Call("parse", ArrayOf(<<>>), <<" ", "[", "1", "]">>),
    Call("parse", ArrayOf(<<>>), <<"\n", "x">>),
    Call("parse", ArrayOf(<<>>), <<>>),
    Call("parse", Obj(<<"a">>, <<ArrayOf(<<>>)>>),
         <<"{", "\"a\"", ":", "\n", "[", "1", ",", "2", ",", "3", "]", "}">>),
    Call("parse", ArrayOf(<<ArrayOf(<<>>)>>), <<"[", " ", "[", "]", "]">>) }

\* Documents delivered in one chunk and then in several.
ChunkedCalls ==
  { Call("parse", BooleanSample, <<"true">>),
    Call("parse", BooleanSample, <<"\n", "tru">>),
    Call("parse", NumberSample, <<"-1.5e1">>),
    Call("parse", NumberSample, <<"00">>),
    Call("parse", StringSample, <<"\"\\n\\u0041\"">>),
    Call("parse", SmallSample, <<"\n", "{", " ", "\"s\"", ":", "\"v\"", "}", " ">>),
    Call("parse", SmallSample, <<"{", "\"s\"", ":", "\"v\"", "}", " ", "x">>),
    Call("parse", NestedSample,
         <<"{", "\"a\"", ":", "{", "}", " ", ",", "\"n\"", ":", "1", "}">>),
    Call("parse", ArrayOf(<<NumberSample>>), <<"[", "11", ",", "22", "]">>) }

\* Booleans that are not spelled out (the tests' "invalid true", "invalid
\* false" and "truncated boolean").
FlagSample == Obj(<<"b">>, <<BooleanSample>>)
BooleanCalls ==
  { Call("parse", BooleanSample, <<"tRue">>),
    Call("parse", BooleanSample, <<"\n", " ", "falsE">>),
    Call("parse", BooleanSample, <<"t", "\n", "rue">>),
    Call("parse", BooleanSample, <<" ", "fals">>),
    Call("parse", FlagSample, <<"{", "\"b\"", ":", "truE", "}">>),
    Call("parse", FlagSample, <<"{", "\"b\"", ":", "\n", "tr">>) }

\* Documents that end where an element, or a key, is due (the tests'
\* "truncated array" and "missing closing" end where a delimiter is due).
TruncatedCalls ==
  { Call("parse", ArrayOf(<<NumberSample>>), <<"[", "1", ",">>),
    Call("Lex.elements", NumberSample, <<"[">>),
    Call("parse", SmallSample, <<"{", "\"s\"", ":", "\"v\"", ",", " ">>),
    Call("parse", EmptySample, <<"{">>) }

Calls0 ==
  VariantCalls \cup RegistryCalls \cup ObjectCalls \cup ScalarCalls \cup ElementCalls
  \cup EmptyArrayCalls \cup DelimiterCalls \cup ChunkedCalls \cup BooleanCalls
  \cup TruncatedCalls

WhiteRuns == {Repeat(" ", n) : n \in 1..MaxWhite} \cup {"\n", "\t", "\r"}

\* The ways a text is cut into chunks: in two at every place, and into its
\* characters.
Cuts(text) ==
  LET places == 1..(Len(text) - 1) IN
  {{c} : c \in places} \cup (IF places = {} THEN {} ELSE {places})

\* The variants of a document: one run of whitespace in one gap, a space in
\* every gap, and text after the document, in one chunk; the document
\* itself, in several chunks.
Variants(call) ==
  LET n == Len(call.tokens)
      Variant(gaps, trail, cuts) == [gaps |-> gaps, trail |-> trail, cuts |-> cuts]
  IN
  (IF call \notin VariantCalls THEN {}
   ELSE { Variant([NoGaps(call.tokens) EXCEPT ![g] = w], "", {}) :
            g \in 1..(n + 1), w \in WhiteRuns }
        \cup { Variant([i \in 1..(n + 1) |-> " "], "", {}) }
        \cup { Variant([NoGaps(call.tokens) EXCEPT ![n + 1] = w], "x", {}) :
                 w \in WhiteRuns \cup {""} })
  \cup
  (IF call \notin ChunkedCalls THEN {}
   ELSE { Variant(NoGaps(call.tokens), "", cuts) :
            cuts \in Cuts(Join(call.tokens, NoGaps(call.tokens))) })

NoOutcome == [settled |-> FALSE, ret |-> NoRet]

NoInput ==
  [entry |-> "", sample |-> NoSample, tokens |-> <<>>, gaps |-> <<>>, trail |-> "",
   cuts |-> {}, text |-> "", phase |-> 0, reference |-> NoOutcome]

Root(entry, sample) ==
  [Frame(IF entry = "parse" THEN "parse" ELSE "consume") EXCEPT !.sample = sample]

\* The reference call: parse(sample, text) or a loop over an element
\* sequence, with the text of the tokens.  Once handlers have been added,
\* the calls made are those of RegistryCalls.
Start(call) ==
  /\ threads = <<>>
  /\ types = BuiltinTypes \/ call \in RegistryCalls
  /\ input' = [NoInput EXCEPT
                 !.entry = call.entry, !.sample = call.sample, !.tokens = call.tokens,
                 !.gaps = NoGaps(call.tokens),
                 !.text = Join(call.tokens, NoGaps(call.tokens)), !.phase = 1]
  /\ lex' = NewLex
  /\ stream' = Chunks(Join(call.tokens, NoGaps(call.tokens)))
  /\ threads' = << <<Root(call.entry, call.sample)>> >>
  /\ run' = <<MainThread>>
  /\ UNCHANGED <<types, reads, queue, outcome, log>>

\* Every job of the reference call has run: the same call is made with a
\* variant of the document.
Again(variant) ==
  /\ input.phase = 1
  /\ outcome.settled
  /\ run = <<>> /\ queue = <<>> /\ reads = <<>>
  /\ input' = [input EXCEPT
                 !.gaps = variant.gaps, !.trail = variant.trail, !.cuts = variant.cuts,
                 !.text = Join(input.tokens, variant.gaps) \o variant.trail,
                 !.phase = 2, !.reference = outcome]
  /\ lex' = NewLex
  /\ stream' = Split(Join(input.tokens, variant.gaps) \o variant.trail, variant.cuts)
  /\ threads' = << <<Root(input.entry, input.sample)>> >>
  /\ run' = <<MainThread>>
  /\ outcome' = NoOutcome
  /\ log' = NoLog
  /\ UNCHANGED <<types, reads, queue>>

Init ==
  /\ types = BuiltinTypes
  /\ lex = NewLex
  /\ stream = <<>>
  /\ reads = <<>>
  /\ threads = <<>>
  /\ queue = <<>>
  /\ run = <<>>
  /\ outcome = NoOutcome
  /\ log = NoLog
  /\ input = NoInput

Next ==
  \/ \E type \in CustomTypes : addType(type)
  \/ \E call \in Calls0 : Start(call)
  \/ \E variant \in Variants([entry |-> input.entry, sample |-> input.sample,
                              tokens |-> input.tokens]) : Again(variant)
  \/ ReadSettles
  \/ Propagate
  \/ peek \/ nextChar \/ mustChar \/ expect \/ skip \/ skipAndPeek \/ skipAndExpect
  \/ unescape \/ booleanLiteral \/ readDigits \/ numberLiteral \/ stringLiteral
  \/ object \/ addProperty \/ ObjectParserParse
  \/ booleanParse \/ numberParse \/ dateParse \/ stringParse \/ arrayParse
  \/ objectParse \/ failParse \/ customParse
  \/ LexElements \/ parse \/ elements \/ consume

Spec == Init /\ [][Next]_vars

\* A step of the program: a job of the microtask queue runs, or a pending
\* reader.read() settles.  The event loop runs every job that is queued and
\* the stream settles every read, so the program's steps are taken as long
\* as one is possible.
Job ==
  \/ ReadSettles
  \/ Propagate
  \/ peek \/ nextChar \/ mustChar \/ expect \/ skip \/ skipAndPeek \/ skipAndExpect
  \/ unescape \/ booleanLiteral \/ readDigits \/ numberLiteral \/ stringLiteral
  \/ object \/ addProperty \/ ObjectParserParse
  \/ booleanParse \/ numberParse \/ dateParse \/ stringParse \/ arrayParse
  \/ objectParse \/ failParse \/ customParse
  \/ LexElements \/ parse \/ elements \/ consume

SpecFair == Init /\ [][Next]_vars /\ WF_vars(Job)

(***************************************************************************)
(* lex.numberLiteral() called on a cursor at the start of a text, as a     *)
(* handler calls it.                                                       *)
(***************************************************************************)
NumberChars == {"-", "0", "1", ".", "e", "+"}

\* The texts of at most n characters of NumberChars.
RECURSIVE Texts(_)
Texts(n) ==
  IF n = 0 THEN {""}
  ELSE LET shorter == Texts(n - 1) IN
       shorter \cup {t \o c : t \in {x \in shorter : Len(x) = n - 1}, c \in NumberChars}

NumberTexts ==
  Texts(MaxNumberLen)
  \cup {" " \o t \o "x" : t \in Texts(MaxNumberLen)}
  \cup {"1E1", "1E-1", "1E", "1Ex", "\n\t 10", "\r-0.5 ", "x1", " "}
  \cup {"003", "\n003}", "-003,", "0}"}

InitNumber ==
  \E text \in NumberTexts :
    /\ types = BuiltinTypes
    /\ lex = NewLex
    /\ stream = Chunks(text)
    /\ reads = <<>>
    /\ threads = << <<Frame("numberLiteral")>> >>
    /\ queue = <<>>
    /\ run = <<MainThread>>
    /\ outcome = NoOutcome
    /\ log = NoLog
    /\ input = [NoInput EXCEPT !.entry = "numberLiteral", !.text = text, !.phase = 1]

NextNumber ==
  \/ ReadSettles
  \/ peek \/ nextChar \/ skip \/ readDigits \/ numberLiteral

SpecNumber == InitNumber /\ [][NextNumber]_vars


(***************************************************************************)
(* Properties of the calls.                                                *)
(***************************************************************************)
Registered == {types[i] : i \in DOMAIN types}

\* The position of the character after the first n characters of text.
LineAt(text, n) == 1 + Cardinality({i \in 1..n : CharAt(text, i - 1) = "\n"})
ColAt(text, n) ==
  LET newlines == {i \in 1..n : CharAt(text, i - 1) = "\n"}
      last == IF newlines = {} THEN 0
              ELSE CHOOSE i \in newlines : \A j \in newlines : j <= i
  IN 1 + n - last

Positioned(text, n, msg) ==
  [name |-> "SyntaxError", positioned |-> TRUE,
   line |-> LineAt(text, n), col |-> ColAt(text, n), msg |-> msg]

\* The characters of the document up to the end of its last token.
DocumentEnd ==
  Len(input.text) - Len(input.trail) - Len(input.gaps[Len(input.tokens) + 1])

\* key is an own property of sample
Own(key, sample) == \E i \in 1..Len(sample.keys) : sample.keys[i] = key

\* The effective template of an object parser: the sample, or what its
\* pre-parse hook returns.
Template(original) ==
  IF original.before # <<>> THEN original.before[1] ELSE original

\* The events of object parser id of one kind, by their place in the history.
Idx(id, what) ==
  {i \in DOMAIN log.events : log.events[i].id = id /\ log.events[i].what = what}

\* The object the assignments of parser id have built, after the first n
\* events.
RECURSIVE Decoded(_, _)
Decoded(id, n) ==
  IF n = 0 THEN ObjectValue(<<>>, <<>>)
  ELSE LET e == log.events[n] IN
       IF e.id = id /\ e.what = "assign" /\ e.key # "__proto__"
       THEN SetKey(Decoded(id, n - 1), e.key, e.arg)
       ELSE Decoded(id, n - 1)

\* C1: every handler lookup made (for the root sample, for a property's
\* sample, for the element sample) chose a registered handler that accepts
\* the sample and whose priority no accepting registered handler is below;
\* when a registered custom handler with a priority below 1,000,000 accepts
\* the sample, no built-in handler is chosen.
C1_LookupSelectsSmallestPriority ==
  \A i \in DOMAIN log.lookups :
    LET l == log.lookups[i] IN
    /\ l.chosen \in Registered
    /\ l.kind \in l.chosen.accepts
    /\ \A x \in Registered : l.kind \in x.accepts => ~PriorityLess(x, l.chosen)
    /\ (\E x \in Registered : /\ x.name \notin BuiltinNames
                              /\ l.kind \in x.accepts
                              /\ PriorityLess(x, booleanType))
         => l.chosen.name \notin BuiltinNames

\* A property whose sample both the registered usd handler and the built-in
\* object handler accept was looked up, and usd was chosen.
C1_CustomHandlerChosen ==
  \E i \in DOMAIN log.lookups :
    /\ log.lookups[i].site = "addProperty"
    /\ log.lookups[i].kind = "USD"
    /\ log.lookups[i].chosen = usdType
    /\ objectType \in Registered

\* C2: a loop over elements(elementSample, source), for a source that holds
\* an array of n well-formed numbers, ends without failure and has received
\* exactly the n decoded numbers, in input order.
C2_ElementsYieldsEveryElement ==
  (input.entry = "elements" /\ outcome.settled) =>
    /\ outcome.ret.ok
    /\ outcome.ret.val =
         ArrayValue([i \in 1..(Len(input.tokens) \div 2) |->
                       JSONparseNumber(input.tokens[2 * i])])

\* C3: when a document that parses is followed by whitespace and then a
\* character that is not whitespace, no character after the whitespace is
\* consumed, and parse fails with "Expected one JSON element, got extra
\* data." at the position of that character.
C3_ExtraDataRejected ==
  (input.phase = 2 /\ input.reference.ret.ok /\ input.trail # "" /\ input.cuts = {}) =>
    LET n == Len(input.text) - Len(input.trail) IN
    /\ lex.index <= n
    /\ outcome.settled =>
         /\ ~outcome.ret.ok
         /\ outcome.ret.err =
              Positioned(input.text, n, "Expected one JSON element, got extra data.")

\* C4: a document that parses without whitespace has the same outcome with
\* a run of whitespace before its first token, between two tokens or after
\* its last token.
C4_WhitespaceInsensitive ==
  (/\ input.phase = 2
   /\ input.reference.ret.ok
   /\ input.trail = ""
   /\ input.cuts = {}
   /\ outcome.settled) =>
    outcome.ret = input.reference.ret

\* C5: at most one thread of cursor operations is under way, at most one
\* read of the source is pending, and only the thread the caller awaits has
\* consumed a character.
C5_CursorOperationsNeverOverlap ==
  /\ Cardinality({t \in DOMAIN threads : threads[t] # <<>>}) <= 1
  /\ Len(reads) <= 1
  /\ log.consumers \subseteq {MainThread}

\* C6: a value is parsed for a key, and assigned, only if the key is an own
\* property of the effective template; a key that is not makes the parse
\* fail with "No such property: <key>".
C6_UnknownKeysRejected ==
  \A i \in DOMAIN log.events :
    LET e == log.events[i]
        template == Template(log.parsers[e.id])
    IN
    /\ e.what \in {"dispatch", "assign"} => Own(e.key, template)
    /\ (e.what = "addProperty" /\ ~Own(e.key, template) /\ outcome.settled) =>
         /\ ~outcome.ret.ok
         /\ outcome.ret.err.positioned
         /\ outcome.ret.err.msg = "No such property: " \o e.key

\* C7: for an object sample at the root, parse succeeds only with a result
\* that has every property of the sample; when the checker is given a
\* result that lacks one, parse fails with "Missing required property:
\* <name>", naming the first such property in the order of the sample, at
\* the position after the closing brace.
C7_MissingPropertyReported ==
  (/\ input.entry = "parse"
   /\ input.sample.kind = "object"
   /\ input.tokens[Len(input.tokens)] = "}"
   /\ outcome.settled) =>
    LET keys == input.sample.keys
        checks == Idx(1, "check")
    IN
    /\ outcome.ret.ok => \A k \in 1..Len(keys) : HasKey(outcome.ret.val, keys[k])
    /\ \A c \in checks :
         LET result == log.events[c].arg
             absent == {k \in 1..Len(keys) : ~HasKey(result, keys[k])}
         IN absent # {} =>
              /\ ~outcome.ret.ok
              /\ outcome.ret.err =
                   Positioned(input.text, DocumentEnd,
                              "Missing required property: "
                              \o keys[CHOOSE k \in absent : \A j \in absent : k <= j])

\* C8: for every object parser, the pre-parse hook runs once and first if
\* the sample has one; every property is read before the closing brace is
\* consumed, against the template the hook returned; after the closing
\* brace the post-parse hook runs once, on the internal decoded result, and
\* then the checker once, on the hook's output; neither runs when the
\* closing brace was not consumed; the hook of the root sample runs with
\* the cursor at the start of the text; and parse returns what the checker
\* was given, and nothing if the checker did not run.
C8_HookLifecycle ==
  /\ \A id \in DOMAIN log.parsers :
       LET original == log.parsers[id]
           all == {i \in DOMAIN log.events : log.events[i].id = id}
           before == Idx(id, "beforeParse")
           props == Idx(id, "key") \cup Idx(id, "addProperty")
                    \cup Idx(id, "dispatch") \cup Idx(id, "assign")
           closed == Idx(id, "closed")
           after == Idx(id, "afterParse")
           checks == Idx(id, "check")
       IN
       /\ Cardinality(before) = IF original.before # <<>> THEN 1 ELSE 0
       /\ \A b \in before : \A i \in all : b <= i
       /\ \A d \in Idx(id, "dispatch") : KeyIn(log.events[d].key, Template(original))
       /\ Cardinality(closed) <= 1
       /\ \A c \in closed : \A i \in props : i < c
       /\ Cardinality(after) <= 1
       /\ after # {} => original.after # <<>>
       /\ \A a \in after :
            /\ \E c \in closed : c < a
            /\ log.events[a].arg = Decoded(id, a)
       /\ Cardinality(checks) <= 1
       /\ \A k \in checks :
            /\ \E c \in closed : c < k
            /\ \A a \in after : a < k
            /\ original.after # <<>> => after # {}
            /\ log.events[k].arg =
                 IF original.after # <<>>
                 THEN AfterParse(original.after, Decoded(id, k))
                 ELSE Decoded(id, k)
  /\ (input.entry = "parse" /\ input.sample.kind = "object") =>
       \A b \in Idx(1, "beforeParse") :
         log.events[b].line = 1 /\ log.events[b].col = 1
  /\ (/\ input.entry = "parse"
      /\ input.sample.kind = "object"
      /\ outcome.settled
      /\ outcome.ret.ok) =>
       /\ Idx(1, "check") # {}
       /\ \A k \in Idx(1, "check") : outcome.ret.val = log.events[k].arg

\* A sample with both hooks has been parsed: both hooks and the checker have
\* run for the object at the root, and parse has returned.
C8_HooksHaveRun ==
  /\ input.sample.before # <<>>
  /\ input.sample.after # <<>>
  /\ outcome.settled
  /\ outcome.ret.ok
  /\ Idx(1, "beforeParse") # {}
  /\ Idx(1, "assign") # {}
  /\ Idx(1, "afterParse") # {}
  /\ Idx(1, "check") # {}

\* C9: every failure of a call is a positioned error, made by lex.error.
C9_EveryFailureIsPositioned ==
  (outcome.settled /\ ~outcome.ret.ok) =>
    /\ outcome.ret.err.positioned
    /\ outcome.ret.err.name = "SyntaxError"

(***************************************************************************)
(* The JSON number grammar.                                                *)
(***************************************************************************)
From(str, i) == SubSeq(str, i + 1, Len(str))

IsDigits(str) == str # "" /\ \A i \in 1..Len(str) : isDigit(CharAt(str, i - 1))

\* 0|[1-9][0-9]*
IsInteger(str) == IsDigits(str) /\ (str = "0" \/ CharAt(str, 0) # "0")

\* (.[0-9]+)?
IsFraction(str) == str = "" \/ (CharAt(str, 0) = "." /\ IsDigits(From(str, 1)))

\* ([eE][+-]?[0-9]+)?
IsExponent(str) ==
  \/ str = ""
  \/ /\ CharAt(str, 0) \in {"e", "E"}
     /\ \/ IsDigits(From(str, 1))
        \/ CharAt(str, 1) \in {"+", "-"} /\ IsDigits(From(str, 2))

\* -?(0|[1-9][0-9]*)(.[0-9]+)?([eE][+-]?[0-9]+)?
IsNumber(str) ==
  \E i \in 0..1 : \E j \in i..Len(str) : \E k \in j..Len(str) :
    /\ i = 1 => CharAt(str, 0) = "-"
    /\ IsInteger(SubSeq(str, i + 1, j))
    /\ IsFraction(SubSeq(str, j + 1, k))
    /\ IsExponent(SubSeq(str, k + 1, Len(str)))

\* The lengths of the prefixes of str that are numbers.
NumberPrefixes(str) == {n \in 1..Len(str) : IsNumber(SubSeq(str, 1, n))}

\* The number of characters of str from position i (from 0) on that are
\* whitespace, or digits.
WhiteRun(str, i) ==
  CHOOSE n \in 0..Len(str) :
    /\ \A j \in 0..(n - 1) : isWhite(CharAt(str, i + j))
    /\ ~isWhite(CharAt(str, i + n))
DigitRun(str, i) ==
  CHOOSE n \in 0..Len(str) :
    /\ \A j \in 0..(n - 1) : isDigit(CharAt(str, i + j))
    /\ ~isDigit(CharAt(str, i + n))

\* C10: numberLiteral, called at the start of a text, skips whitespace and
\* then fails with "Expected number, got: <c>" if the first character c is
\* neither - nor a digit, "Expected number." if no digit follows the -,
\* "Invalid number (leading zeroes.)" if the integer part has more than one
\* digit and starts with 0, "Invalid number (empty fraction.)" if no digit
\* follows the ., "Invalid number (empty exponent.)" if no digit follows the
\* e or E and its sign; otherwise it returns the number that the longest
\* prefix of the number grammar denotes, and has consumed the whitespace and
\* that prefix, and nothing else.
C10_NumberGrammar ==
  (input.entry = "numberLiteral" /\ outcome.settled) =>
    LET white == WhiteRun(input.text, 0)
        t == From(input.text, white)
        first == CharAt(t, 0)
        int == IF first = "-" THEN 1 ELSE 0
        dot == int + DigitRun(t, int)
        e == IF CharAt(t, dot) = "." THEN dot + 1 + DigitRun(t, dot + 1) ELSE dot
        digits == IF CharAt(t, e + 1) \in {"+", "-"} THEN e + 2 ELSE e + 1
        Fails(msg) == /\ ~outcome.ret.ok
                      /\ outcome.ret.err.positioned
                      /\ outcome.ret.err.msg = msg
    IN
    IF first # "-" /\ ~isDigit(first)
      THEN Fails("Expected number, got: " \o first)
    ELSE IF first = "-" /\ ~isDigit(CharAt(t, 1))
      THEN Fails("Expected number.")
    ELSE IF CharAt(t, int) = "0" /\ dot - int > 1
      THEN Fails("Invalid number (leading zeroes.)")
    ELSE IF CharAt(t, dot) = "." /\ ~isDigit(CharAt(t, dot + 1))
      THEN Fails("Invalid number (empty fraction.)")
    ELSE IF CharAt(t, e) \in {"e", "E"} /\ ~isDigit(CharAt(t, digits))
      THEN Fails("Invalid number (empty exponent.)")
    ELSE LET prefixes == NumberPrefixes(t)
             longest == CHOOSE n \in prefixes : \A m \in prefixes : m <= n
         IN
         /\ prefixes # {}
         /\ outcome.ret.ok
         /\ outcome.ret.val = JSONparseNumber(SubSeq(t, 1, longest))
         /\ lex.lineNo = LineAt(input.text, white + longest)
         /\ lex.charNo = ColAt(input.text, white + longest)

\* numberLiteral has returned the number of a literal with a fraction and a
\* signed exponent, and has left the character after it.
C10_NumberAccepted ==
  /\ input.entry = "numberLiteral"
  /\ input.text = " 1e-1x"
  /\ outcome.settled
  /\ outcome.ret.ok
  /\ outcome.ret.val = NumberValue(1, 0 - 1)
  /\ lex.index = 5

(***************************************************************************)
(* The escapes of a string literal.                                        *)
(***************************************************************************)
SimpleEscapes == {"\"", "\\", "/", "b", "f", "n", "r", "t"}

\* The character an escape letter stands for.
Escaped(c) ==
  CASE c = "b" -> "\\u{8}" [] c = "f" -> "\f" [] c = "n" -> "\n"
    [] c = "r" -> "\r" [] c = "t" -> "\t" [] OTHER -> c

\* What the body of a string literal decodes to, read from position i (from
\* 0) of text with acc decoded so far: the string (kind "ok"), the failure
\* (kind "fail", msg), or "open" where the escape rules say nothing (the
\* four characters after \u are not all hex digits).
RECURSIVE DecodeString(_, _, _)
DecodeString(text, i, acc) ==
  LET ch == CharAt(text, i)
      c == CharAt(text, i + 1)
      hex == SubSeq(text, i + 3, i + 6)
      Result(kind, str, msg) == [kind |-> kind, s |-> str, msg |-> msg]
  IN
  IF ch = "" THEN Result("fail", "", "Expected \" but got EOF.")
  ELSE IF ch = "\"" THEN Result("ok", acc, "")
  ELSE IF ch # "\\" THEN DecodeString(text, i + 1, acc \o ch)
  ELSE IF c = "" THEN Result("fail", "", "Expected a character but got EOF.")
  ELSE IF c \in SimpleEscapes THEN DecodeString(text, i + 2, acc \o Escaped(c))
  ELSE IF c # "u" THEN Result("fail", "", "Invalid escaped character.")
  ELSE IF i + 6 > Len(text)
    THEN Result("fail", "", "Expected a character but got EOF.")
  ELSE IF IsHex4(hex)
    THEN DecodeString(text, i + 6, acc \o FromCharCode(HexValue(hex)))
  ELSE Result("open", "", "")

\* C11: parse of a string sample, on a text that is one string literal,
\* returns the string in which every escape \" \\ \/ \b \f \n \r \t stands
\* for its character and every \uXXXX for its code point; it fails with
\* "Invalid escaped character." when another character follows a backslash
\* and with "Expected a character but got EOF." when the text ends after a
\* backslash or within the four hex digits.
C11_EscapesDecoded ==
  (/\ input.entry = "parse"
   /\ input.sample.kind = "string"
   /\ CharAt(input.text, 0) = "\""
   /\ outcome.settled) =>
    LET d == DecodeString(input.text, 1, "") IN
    /\ d.kind = "ok" => outcome.ret.ok /\ outcome.ret.val = StringValue(d.s)
    /\ d.kind = "fail" =>
         /\ ~outcome.ret.ok
         /\ outcome.ret.err.positioned
         /\ outcome.ret.err.msg = d.msg

(***************************************************************************)
(* Sample arrays without a sample element.                                 *)
(***************************************************************************)
EmptyArrayCase ==
  [entry |-> input.entry, sample |-> input.sample, tokens |-> input.tokens]
    \in EmptyArrayCalls

\* The number of characters of the text before the value the array handler
\* is called for: those before the first character that is not whitespace,
\* from the start of the text (root sample), after the colon (property) or
\* after the opening bracket (element).
ArrayValueStart ==
  LET p == CASE input.sample = ArrayOf(<<>>) -> 0
             [] input.sample.kind = "object" -> IndexOf(input.text, {":"})
             [] OTHER -> IndexOf(input.text, {"["})
  IN p + WhiteRun(input.text, p)

\* Where the cursor is when the array handler is called: parse calls the
\* handler of the root sample at the start of the text, addProperty and
\* Lex.elements skip whitespace first.
ArrayHandlerCalledAt ==
  IF input.sample = ArrayOf(<<>>) THEN 0 ELSE ArrayValueStart

\* C12: when the array sample is empty, no character of the array value is
\* consumed and parse fails with "No sample element in sample array." at the
\* position of the first character of the array value, whatever the text.
C12_EmptySampleArrayFails ==
  EmptyArrayCase =>
    /\ lex.eof \/ lex.index <= ArrayValueStart
    /\ outcome.settled =>
         /\ ~outcome.ret.ok
         /\ outcome.ret.err =
              Positioned(input.text, ArrayValueStart, "No sample element in sample array.")

\* C12 (amended): when the array sample is empty, no character is consumed
\* once the array handler is called and parse fails with "No sample element
\* in sample array." at the cursor's position at that call, whatever the
\* text: the first character of the array value for a property or an
\* element, the start of the text for a root sample.
C12_EmptySampleArrayFailsAtCursor ==
  EmptyArrayCase =>
    /\ lex.eof \/ lex.index <= ArrayHandlerCalledAt
    /\ outcome.settled =>
         /\ ~outcome.ret.ok
         /\ outcome.ret.err =
              Positioned(input.text, ArrayHandlerCalledAt,
                         "No sample element in sample array.")

\* An empty root sample array has failed on a text that starts with
\* whitespace, and an empty property sample array on a text with a newline
\* before the value.
C12_EmptySampleArrayFailed ==
  /\ outcome.settled
  /\ ~outcome.ret.ok
  /\ outcome.ret.err.msg = "No sample element in sample array."
  /\ \/ input.text = " [1]" /\ lex.index = 0
     \/ input.sample.kind = "object" /\ outcome.ret.err.line = 2

(***************************************************************************)
(* Leading zeroes.                                                         *)
(***************************************************************************)
\* The text after its leading whitespace is the token 003, or the token 0.
Token003 ==
  LET t == From(input.text, WhiteRun(input.text, 0)) IN
  /\ CharAt(t, 0) = "0" /\ CharAt(t, 1) = "0" /\ CharAt(t, 2) = "3"
  /\ ~isDigit(CharAt(t, 3))
Token0 ==
  LET t == From(input.text, WhiteRun(input.text, 0)) IN
  CharAt(t, 0) = "0" /\ CharAt(t, 1) \notin {"0", "1", ".", "e", "E"}

\* C13: numberLiteral on the token 003 fails with "Invalid number (leading
\* zeroes.)" at the position of the third character of the token; on the
\* token 0 it returns the number 0.
C13_LeadingZeroesAtThirdCharacter ==
  (input.entry = "numberLiteral" /\ outcome.settled) =>
    LET white == WhiteRun(input.text, 0) IN
    /\ Token003 =>
         /\ ~outcome.ret.ok
         /\ outcome.ret.err =
              Positioned(input.text, white + 2, "Invalid number (leading zeroes.)")
    /\ Token0 => outcome.ret.ok /\ outcome.ret.val = NumberValue(0, 0)

\* C13 (amended): numberLiteral on an integer part of more than one digit
\* that starts with 0 (such as 003) fails with "Invalid number (leading
\* zeroes.)" at the position after the last digit of the integer part, all
\* of whose digits it has consumed; on the token 0 it returns the number 0.
C13_LeadingZeroesAfterDigits ==
  (input.entry = "numberLiteral" /\ outcome.settled) =>
    LET white == WhiteRun(input.text, 0)
        t == From(input.text, white)
        int == IF CharAt(t, 0) = "-" THEN 1 ELSE 0
        digits == DigitRun(t, int)
    IN
    /\ (CharAt(t, int) = "0" /\ digits > 1) =>
         /\ ~outcome.ret.ok
         /\ outcome.ret.err =
              Positioned(input.text, white + int + digits,
                         "Invalid number (leading zeroes.)")
         /\ lex.eof \/ lex.index = white + int + digits
    /\ Token0 => outcome.ret.ok /\ outcome.ret.val = NumberValue(0, 0)

\* The token 003 on the second line of a text has been rejected, with the
\* position of the character after it.
C13_Rejected003 ==
  /\ input.text = "\n003}"
  /\ outcome.settled
  /\ ~outcome.ret.ok
  /\ outcome.ret.err.line = 2
  /\ outcome.ret.err.col = 4

(***************************************************************************)
(* The catch-all handler.                                                  *)
(***************************************************************************)
CatchAlls == {i \in DOMAIN types : types[i].accepts = AllKinds}

\* C14: the registry has exactly one handler that accepts every sample; it
\* is the last in lookup order and no handler's priority is greater; every
\* sample is accepted by some handler; a lookup chooses the catch-all only
\* for a sample no other handler accepts; and a call whose root sample the
\* catch-all is chosen for fails with the TypeError "Unsupported type".
C14_RegistryInvariant ==
  /\ Cardinality(CatchAlls) = 1
  /\ types[Len(types)].accepts = AllKinds
  /\ \A i \in DOMAIN types : ~PriorityLess(types[Len(types)], types[i])
  /\ \A kind \in AllKinds : \E i \in DOMAIN types : kind \in types[i].accepts
  /\ \A l \in DOMAIN log.lookups :
       log.lookups[l].chosen.accepts = AllKinds =>
         \A i \in DOMAIN types :
           types[i] # log.lookups[l].chosen => log.lookups[l].kind \notin types[i].accepts
  /\ (/\ outcome.settled
      /\ log.lookups # <<>>
      /\ log.lookups[1].site = "parse"
      /\ log.lookups[1].chosen.accepts = AllKinds) =>
       /\ ~outcome.ret.ok
       /\ outcome.ret.err = TypeError("Unsupported type")

(***************************************************************************)
(* The syntax of an array of numbers, over the tokens of the document.     *)
(***************************************************************************)
IsWhiteToken(tok) == tok # "" /\ \A i \in 1..Len(tok) : isWhite(CharAt(tok, i - 1))

\* The tokens of the document that are not whitespace.
Meaningful == SelectSeq(input.tokens, LAMBDA tok : ~IsWhiteToken(tok))

TokenAt(toks, i) == IF i \in DOMAIN toks THEN toks[i] ELSE ""

\* What reading toks as an array gives, from toks[i] on, after n elements:
\* the number of elements (kind "ok"), the failure on the delimiter (kind
\* "fail", msg), or a rejection for another reason (kind "reject").
\* what is "element" where an element must come, "delim" after an element
\* and "first" after the opening bracket.
RECURSIVE ArraySyntax(_, _, _, _)
ArraySyntax(toks, i, n, what) ==
  LET tok == TokenAt(toks, i)
      Result(kind, msg) == [kind |-> kind, n |-> n, msg |-> msg]
  IN
  IF what = "first" /\ tok = "]" THEN Result("ok", "")
  ELSE IF what \in {"first", "element"}
    THEN IF IsNumber(tok) THEN ArraySyntax(toks, i + 1, n + 1, "delim")
         ELSE Result("reject", "")
  ELSE IF tok = "," THEN ArraySyntax(toks, i + 1, n, "element")
  ELSE IF tok = "]" THEN Result("ok", "")
  ELSE Result("fail", "Expected , or ] but got: " \o OrEOF(CharAt(tok, 0)))

\* The call reads an array of numbers: parse of a sample array of a number,
\* or a loop over lex.elements of a number.
NumberArrayCase ==
  /\ \/ input.entry = "parse" /\ input.sample = ArrayOf(<<NumberSample>>)
     \/ input.entry = "Lex.elements" /\ input.sample = NumberSample
  /\ TokenAt(Meaningful, 1) = "["
  /\ input.trail = ""

\* C15: an array of numbers is read as [ ], or as [ followed by elements
\* with one comma between two of them and ] after the last: the call
\* returns as many elements as there are number tokens, one more than the
\* commas; a comma followed by ] makes it fail; a token other than , or ]
\* after an element makes it fail with "Expected , or ] but got: <its first
\* character, or EOF>".
C15_ArraySyntax ==
  (NumberArrayCase /\ outcome.settled) =>
    LET r == ArraySyntax(Meaningful, 2, 0, "first")
        commas == Len(SelectSeq(Meaningful, LAMBDA tok : tok = ","))
    IN
    /\ r.kind = "ok" => /\ outcome.ret.ok
                        /\ Len(outcome.ret.val.items) = r.n
    /\ r.kind = "fail" => /\ ~outcome.ret.ok
                          /\ outcome.ret.err.positioned
                          /\ outcome.ret.err.msg = r.msg
    /\ r.kind = "reject" => ~outcome.ret.ok
    /\ (outcome.ret.ok /\ outcome.ret.val.items # <<>>) =>
         Len(outcome.ret.val.items) = commas + 1

(***************************************************************************)
(* The syntax of an object, over the tokens of the document.               *)
(***************************************************************************)
IsKeyToken(tok) == Len(tok) >= 2 /\ CharAt(tok, 0) = "\"" /\ CharAt(tok, Len(tok) - 1) = "\""

IsValueToken(tok) == IsKeyToken(tok) \/ IsNumber(tok)

\* What reading toks as an object gives, from toks[i] on, after n pairs: the
\* number of pairs (kind "ok"), the failure on the delimiter (kind "fail",
\* msg), or a rejection for another reason (kind "reject").  what is "pair"
\* where a pair must come, "delim" after a pair and "first" after the
\* opening brace.
RECURSIVE ObjectSyntax(_, _, _, _)
ObjectSyntax(toks, i, n, what) ==
  LET tok == TokenAt(toks, i)
      Result(kind, msg) == [kind |-> kind, n |-> n, msg |-> msg]
  IN
  IF what = "first" /\ tok = "}" THEN Result("ok", "")
  ELSE IF what \in {"first", "pair"}
    THEN IF /\ IsKeyToken(tok)
            /\ TokenAt(toks, i + 1) = ":"
            /\ IsValueToken(TokenAt(toks, i + 2))
         THEN ObjectSyntax(toks, i + 3, n + 1, "delim")
         ELSE Result("reject", "")
  ELSE IF tok = "," THEN ObjectSyntax(toks, i + 1, n, "pair")
  ELSE IF tok = "}" THEN Result("ok", "")
  ELSE Result("fail", "Expected , or } but got: " \o OrEOF(CharAt(tok, 0)))

\* The call reads an object whose properties are strings or numbers, all of
\* them present in the documents that are well formed.
FlatObjectCase ==
  /\ input.entry = "parse"
  /\ input.sample \in {SmallSample, PairSample}
  /\ TokenAt(Meaningful, 1) = "{"
  /\ \A i \in DOMAIN Meaningful : Meaningful[i] \notin {"\"p\"", "\"__proto__\"", "\"toString\""}
  /\ Len(Meaningful) > 2
  /\ input.trail = ""

\* C16: an object is read as { }, or as { followed by "key":value pairs with
\* one comma between two of them and } after the last: the call returns an
\* object with as many properties as there are pairs, one more than the
\* commas; a comma followed by } makes it fail; a token other than , or }
\* after a pair makes it fail with "Expected , or } but got: <its first
\* character, or EOF>".
C16_ObjectSyntax ==
  (FlatObjectCase /\ outcome.settled) =>
    LET r == ObjectSyntax(Meaningful, 2, 0, "first")
        commas == Len(SelectSeq(Meaningful, LAMBDA tok : tok = ","))
    IN
    /\ r.kind = "ok" => /\ outcome.ret.ok
                        /\ Len(outcome.ret.val.keys) = r.n
    /\ r.kind = "fail" => /\ ~outcome.ret.ok
                          /\ outcome.ret.err.positioned
                          /\ outcome.ret.err.msg = r.msg
    /\ r.kind = "reject" => ~outcome.ret.ok
    /\ (outcome.ret.ok /\ outcome.ret.val.keys # <<>>) =>
         Len(outcome.ret.val.keys) = commas + 1

(***************************************************************************)
(* Delivery in chunks.                                                     *)
(***************************************************************************)
\* C20: a document delivered in several chunks, cut anywhere, has the
\* outcome of the same document delivered in one chunk: the same value, or
\* the same error with the same line and column.
C20_ChunkBoundaryIndependent ==
  (input.phase = 2 /\ input.cuts # {} /\ outcome.settled) =>
    outcome.ret = input.reference.ret

(***************************************************************************)
(* The cursor's position.                                                  *)
(***************************************************************************)
\* The number of characters of the text the cursor is past.
Offset == log.base + lex.index

\* What the step hands to the caller of the function that returns in it.
Returned == threads'[cur][Len(stack) - 1].ret

\* The running function returns in this step.
ReturnsNow == Len(stack) > 1 /\ Len(threads'[cur]) = Len(stack) - 1

NumbersOf(toks) ==
  LET numbers == SelectSeq(toks, IsNumber) IN
  [i \in DOMAIN numbers |-> JSONparseNumber(numbers[i])]

\* The place on the main thread's stack of the frame that pulls from the
\* sequence: the loop of the caller, or the array handler under parse.
ConsumerAt == IF input.entry = "parse" THEN 2 ELSE 1

HasConsumer ==
  /\ NumberArrayCase
  /\ MainThread \in DOMAIN threads
  /\ Len(threads[MainThread]) >= ConsumerAt
  /\ threads[MainThread][ConsumerAt].pc = "next"

Consumer == threads[MainThread][ConsumerAt]

\* A generator is suspended at a yield, held by frame i of thread t, before
\* and after the step.
StaysSuspended(t, i) ==
  /\ t \in DOMAIN threads /\ t \in DOMAIN threads'
  /\ i \in DOMAIN threads[t] /\ i \in DOMAIN threads'[t]
  /\ threads[t][i].gen # <<>>
  /\ threads'[t][i].gen = threads[t][i].gen

\* C18: while a generator is suspended at a yield the cursor does not
\* change; the elements the consumer has received are the first numbers of
\* the document, in order; and when the sequence fails, on the element
\* after n well-formed elements or on the delimiter after the n-th, or
\* completes after n elements, the consumer has received exactly those n
\* before.
C18_DemandDriven ==
  /\ [][(\E t \in DOMAIN threads : \E i \in DOMAIN threads[t] : StaysSuspended(t, i))
          => lex' = lex]_vars
  /\ [](HasConsumer =>
          LET items == Consumer.target.items
              all == NumbersOf(Meaningful)
              r == ArraySyntax(Meaningful, 2, 0, "first")
          IN
          /\ Len(items) <= Len(all)
          /\ items = SubSeq(all, 1, Len(items))
          /\ (Consumer.gen = <<>> /\ Len(threads[MainThread]) = ConsumerAt
              /\ (~Consumer.ret.ok \/ Consumer.ret.done))
               => /\ Len(items) = r.n
                  /\ ~Consumer.ret.ok => r.kind # "ok")

(***************************************************************************)
(* expect.                                                                 *)
(***************************************************************************)
\* parse is called with a boolean sample, or with the sample {b: true} on
\* a text whose first property is b; the boolean value starts after the
\* colon.
BooleanCase ==
  /\ input.entry = "parse"
  /\ input.sample \in {BooleanSample, FlagSample}
BooleanValueStart ==
  IF input.sample = BooleanSample THEN 0 ELSE IndexOf(input.text, {":"})

\* The literal the value is matched against (by its first character after
\* the whitespace), where it starts, and the number of its characters that
\* the text matches.
LiteralStart == BooleanValueStart + WhiteRun(input.text, BooleanValueStart)
Literal ==
  IF CharAt(input.text, LiteralStart) = "t" THEN "true"
  ELSE IF CharAt(input.text, LiteralStart) = "f" THEN "false"
  ELSE ""
Matched ==
  CHOOSE i \in 0..Len(Literal) :
    /\ \A j \in 0..(i - 1) : CharAt(input.text, LiteralStart + j) = CharAt(Literal, j)
    /\ i < Len(Literal) => CharAt(input.text, LiteralStart + i) # CharAt(Literal, i)
Mismatch == CharAt(input.text, LiteralStart + Matched)

\* C19: when a character of the text differs from the character of the
\* literal (true or false) it is matched against, after the whitespace, the
\* parse fails with "Expected <literal>, got: <that character, or EOF>" at
\* the position of that character (of the end of the text if it is
\* truncated).
C19_ExpectFailsAtMismatch ==
  (BooleanCase /\ outcome.settled /\ Literal # "" /\ Matched < Len(Literal)) =>
    /\ ~outcome.ret.ok
    /\ outcome.ret.err =
         Positioned(input.text, LiteralStart + Matched,
                    "Expected " \o Literal \o ", got: "
                    \o (IF Mismatch = "" THEN "EOF" ELSE Mismatch))

\* C19 (amended): when a character of the text differs from the character
\* of the literal (true or false) it is matched against, after the
\* whitespace, the parse fails with "Expected <literal>, got: <that
\* character, or EOF>" at the position after that character, which has been
\* consumed (at the end of the text if it is truncated).
C19_ExpectFailsAfterMismatch ==
  (BooleanCase /\ outcome.settled /\ Literal # "" /\ Matched < Len(Literal)) =>
    LET after == IF Mismatch = "" THEN Len(input.text) ELSE LiteralStart + Matched + 1 IN
    /\ ~outcome.ret.ok
    /\ outcome.ret.err =
         Positioned(input.text, after,
                    "Expected " \o Literal \o ", got: "
                    \o (IF Mismatch = "" THEN "EOF" ELSE Mismatch))
    /\ Offset = after

\* A boolean with a wrong character has been rejected at the position after
\* that character, and a truncated one at the end of the text.
C19_Mismatched ==
  /\ BooleanCase /\ outcome.settled /\ ~outcome.ret.ok
  /\ \/ input.text = "tRue" /\ outcome.ret.err.col = 3
     \/ /\ input.sample = FlagSample /\ Mismatch = ""
        /\ outcome.ret.err.line = 2 /\ outcome.ret.err.col = 3

(***************************************************************************)
(* The default checker and function-valued properties.                     *)
(***************************************************************************)
\* The properties of the sample whose value is a function, and the others.
FunctionKeys ==
  {input.sample.keys[i] : i \in {j \in DOMAIN input.sample.keys :
                                  input.sample.props[j].kind = "function"}}
RequiredKeys ==
  {input.sample.keys[i] : i \in DOMAIN input.sample.keys} \ FunctionKeys
IsMissing(k) ==
  /\ ~outcome.ret.ok
  /\ outcome.ret.err.msg = "Missing required property: " \o k

\* C21: with the default checker, parse of an object sample never fails
\* with "Missing required property" for a property whose sample value is a
\* function, and it resolves only with a result that has every property
\* whose sample value is not a function.
C21_FunctionsExempt ==
  (input.entry = "parse" /\ input.sample.kind = "object" /\ outcome.settled) =>
    /\ \A k \in FunctionKeys : ~IsMissing(k)
    /\ outcome.ret.ok =>
         \A k \in RequiredKeys : HasKey(outcome.ret.val, k)

(***************************************************************************)
(* Termination.                                                            *)
(***************************************************************************)
\* A call of parse, or a loop over an element sequence, has been made.
Called == input.phase > 0

\* A pull on an element sequence is outstanding: a for await loop (the
\* caller's, or the array handler's) waits for the generator it resumed.
Pulling ==
  \E t \in DOMAIN threads : \E i \in 1..(Len(threads[t]) - 1) :
    /\ threads[t][i].fn \in {"consume", "type.parse"}
    /\ threads[t][i].pc = "next"

\* No job is queued or running and no read is pending.
Quiet == run = <<>> /\ queue = <<>> /\ reads = <<>>

\* The frames that are about to be resumed with what their callee returned.
Resumed == {threads[t][Len(threads[t])] : t \in {u \in DOMAIN threads : threads[u] # <<>>}}

\* C22: a call of parse eventually resolves or rejects, every pull on an
\* element sequence eventually returns, and every job of the call
\* eventually ends; an iteration of the whitespace, digit or string loop
\* that consumed no character found the end of the stream, at the end of
\* the stream these loops exit at their next test, and the array and object
\* loops run no iteration to its end from a test that read the end of the
\* stream.
C22_Terminates ==
  /\ (Called /\ ~outcome.settled) ~> outcome.settled
  /\ Pulling ~> ~Pulling
  /\ Called ~> Quiet
  /\ [](\A f \in Resumed :
          /\ (f.fn \in {"skip", "readDigits"} /\ f.pc = "consumed" /\ f.ret.ok
              /\ f.ret.ch = "") => lex.eof
          /\ (f.fn = "stringLiteral" /\ f.pc = "char" /\ f.ret.ok /\ f.ret.ch = "")
               => lex.eof
          /\ (f.fn = "Lex.elements" /\ f.pc \in {"value", "closed"} /\ f.ret.ok)
               => f.ch # ""
          /\ (f.fn = "ObjectParser.parse" /\ f.pc \in {"key", "closed"} /\ f.ret.ok)
               => f.ch # "")
  /\ [][((skip \/ readDigits) /\ top.pc = "peeked" /\ top.ret.ch = "")
          => Len(threads'[cur]) < Len(stack)]_vars
  /\ [][(stringLiteral /\ top.pc = "char" /\ lex.eof)
          => Len(threads'[cur]) < Len(stack)]_vars
  /\ [][((LexElements \/ ObjectParserParse) /\ top.pc = "delim" /\ top.ret.ch = "")
          => Len(threads'[cur]) < Len(stack)]_vars

\* A text that ends inside its last token has been read to the end of the
\* stream and the call has failed, every job having ended.
C22_EndedAtEndOfStream ==
  /\ Called /\ outcome.settled /\ ~outcome.ret.ok /\ Quiet
  /\ lex.eof
  /\ input.text \in {"{\"s\":\"v\"", "[1,2\n"}

====
